---- MODULE Spec2Model ----
(***************************************************************************)
(* State-machine model of the job runner of script-runner                  *)
(* (src/src/runner.js, class ScriptRunner, lines 1-583).                   *)
(*                                                                         *)
(* Node runs every handler to completion on one thread, so each runner     *)
(* operation (submitRun, cancelJob, getJobLogs) and each callback (timer   *)
(* expiry, child 'error', child 'close') is one atomic action.  The        *)
(* closure variables of executeJob (finished, timedOut, timeoutHandle,     *)
(* stdoutFd, stderrFd, startedMs) are kept per job in `exec`.              *)
(*                                                                         *)
(* The job store file and the log files outlive the process: `store` and   *)
(* `files` are kept when the process stops and a new runner is constructed *)
(* (Restart), everything else is rebuilt by the constructor.               *)
(***************************************************************************)
EXTENDS Integers, Sequences, FiniteSets, TLC

(* ---------------------------- bounds ----------------------------------- *)
\* jobs submitted in one process lifetime, under Spec
MaxJobs == 2
\* jobs submitted in one process lifetime, under SpecQueue
MaxQueueJobs == 3
\* largest value of runner.maxConcurrent explored
MaxSlots == 2
\* last instant of the wall clock
MaxClock == 1
\* jobs submitted in one process lifetime, under SpecLog
MaxLogJobs == 1
\* bytes a child writes on one stream, under SpecLog
MaxProduced == 5
\* largest chunk of a 'data' event
MaxChunk == 3
\* largest limit passed to getJobLogs
MaxLimit == 4
\* jobs in the job map, under SpecStore
MaxStoreJobs == 2
\* times the process is started again, under SpecStore
MaxBoots == 2
\* jobs submitted in one process lifetime, under SpecDisk
MaxDiskJobs == 2
\* jobs submitted in one process lifetime, under SpecLive
MaxLiveJobs == 2

(* --------------------------- nullable values --------------------------- *)
\* JavaScript null, and a present value v
Null == <<>>
Some(v) == <<v>>
Val(x) == x[1]

(* ------------------------------ STATUS --------------------------------- *)
QUEUED == "queued"
RUNNING == "running"
SUCCEEDED == "succeeded"
FAILED == "failed"
TIMED_OUT == "timed_out"
CANCELED == "canceled"

STATUS == {QUEUED, RUNNING, SUCCEEDED, FAILED, TIMED_OUT, CANCELED}
Terminal == {SUCCEEDED, FAILED, TIMED_OUT, CANCELED}

(* ------------------------- configuration ------------------------------- *)
\* runner.defaultMode
defaultMode == "sync"

\* config.runner.maxLogBytesPerStream as configured in Init, a small cap
ConfiguredLogBytes == 3
\* the cap the constructor falls back to (1024 * 1024 in the source), scaled
\* down with the configured one
DefaultLogBytes == 4

\* this.previewMaxBytes, a small configured size
previewMaxBytes == 3

\* getJobLogs: the limit used when none is given (65536 in the source) and
\* the largest limit honoured (1024 * 1024 in the source), scaled down with
\* the log cap
ReadLimitDefault == 2
ReadLimitCap == 3

\* The script registry: "ok" names no mode of its own and has no timeout,
\* "slow" is async with a timeout.  The argument policy is the fixtures'
\* one, "^[a-zA-Z0-9._-]+$", with the lengths scaled down.
ScriptIds == {"ok", "slow"}
scriptMap ==
  [id \in ScriptIds |->
     IF id = "ok"
     THEN [id |-> "ok", mode |-> "unset", timeoutSec |-> 0,
           args |-> [maxItems |-> 2, itemMaxLength |-> 3]]
     ELSE [id |-> "slow", mode |-> "async", timeoutSec |-> 1,
           args |-> [maxItems |-> 1, itemMaxLength |-> 2]]]

\* characters the itemPattern class [a-zA-Z0-9._-] accepts, among those used
PatternChars == {"a", "b", ".", "-"}

(* ----------------------------- requests -------------------------------- *)
\* an element of args: a string (its characters) or a value of another type
Str(cs) == [isString |-> TRUE, chars |-> cs]
NonStr == [isString |-> FALSE, chars |-> <<>>]
\* args: an array of elements, or something that is no array
Arr(items) == [isArray |-> TRUE, items |-> items]
NotArray == [isArray |-> FALSE, items |-> <<>>]

\* the args of the requests of Spec: one accepted array and one for each way
\* validateRequest rejects; the other specifications pass the empty array
ArgInputs ==
  { Arr(<< Str(<<"a">>) >>),
    Arr(<< Str(<<"b", "/">>) >>),
    Arr(<< Str(<<"a", "a", "a", "a">>) >>),
    Arr(<< Str(<<"a">>), Str(<<"a">>), Str(<<"a">>) >>),
    Arr(<< NonStr >>),
    NotArray }


\* RegExp(itemPattern).test(value) for the pattern ^[a-zA-Z0-9._-]+$
itemRegexTest(cs) ==
  /\ Len(cs) > 0
  /\ \A i \in 1..Len(cs) : cs[i] \in PatternChars

\* the loop over args of validateRequest: the index of the first offending
\* element, 0 when every element passes
RECURSIVE firstBadArg(_, _, _)
firstBadArg(items, i, policy) ==
  IF i > Len(items) THEN 0
  ELSE IF ~items[i].isString THEN i
  ELSE IF Len(items[i].chars) > policy.itemMaxLength THEN i
  ELSE IF ~itemRegexTest(items[i].chars) THEN i
  ELSE firstBadArg(items, i + 1, policy)

\* validateRequest looking at args before it looks the script up
validateRequestArgsFirst(scriptId, args) ==
  IF ~args.isArray
  THEN [ok |-> FALSE, code |-> "INVALID_ARGS"]
  ELSE IF scriptId \notin DOMAIN scriptMap
  THEN [ok |-> FALSE, code |-> "SCRIPT_NOT_FOUND"]
  ELSE IF Len(args.items) > scriptMap[scriptId].args.maxItems
  THEN [ok |-> FALSE, code |-> "INVALID_ARGS"]
  ELSE IF firstBadArg(args.items, 1, scriptMap[scriptId].args) # 0
  THEN [ok |-> FALSE, code |-> "INVALID_ARGS"]
  ELSE [ok |-> TRUE, code |-> "OK"]

validateRequest(scriptId, args) ==
  IF scriptId \notin DOMAIN scriptMap
  THEN [ok |-> FALSE, code |-> "SCRIPT_NOT_FOUND"]
  ELSE IF ~args.isArray
  THEN [ok |-> FALSE, code |-> "INVALID_ARGS"]
  ELSE IF Len(args.items) > scriptMap[scriptId].args.maxItems
  THEN [ok |-> FALSE, code |-> "INVALID_ARGS"]
  ELSE IF firstBadArg(args.items, 1, scriptMap[scriptId].args) # 0
  THEN [ok |-> FALSE, code |-> "INVALID_ARGS"]
  ELSE [ok |-> TRUE, code |-> "OK"]

\* resolveMode preferring the script's mode to the request's
resolveModeScriptFirst(script, requestedMode) ==
  IF script.mode = "sync" \/ script.mode = "async" THEN script.mode
  ELSE IF requestedMode = "sync" \/ requestedMode = "async" THEN requestedMode
  ELSE defaultMode

resolveMode(script, requestedMode) ==
  IF requestedMode = "sync" \/ requestedMode = "async" THEN requestedMode
  ELSE IF script.mode = "sync" \/ script.mode = "async" THEN script.mode
  ELSE defaultMode


(* ------------------------------- state --------------------------------- *)
VARIABLES
  config,         \* this.config: the runner section, maxLogBytesPerStream
  maxConcurrent,  \* this.maxConcurrent
  jobs,           \* this.jobs, in insertion order: position -> job record
  queue,          \* this.queue: the positions of the queued {job, script} pairs
  runningCount,   \* this.runningCount
  seq,            \* this.seq
  store,          \* jobStoreFile: absent, a JSON array of records, or torn
  files,          \* logsDir: per jobId, the bytes of its two log files
  trail,          \* per job, the values assigned to job.status, in order
  disk,           \* what the file system does with a write: "ok", or it
                  \* fails with nothing written ("denied") or part ("full")
  boot,           \* how many times the process has been started again
  exec,           \* per job, the closure state of executeJob and its child
  promises,       \* per job, job._resolvePromise and the promise of submitRun
  now,            \* the wall clock read by nowIso() and Date.now()
  ret             \* the {ok: false, code} the operation of the last step
                  \* returned, if the step was an operation that failed

vars == <<config, maxConcurrent, jobs, queue, runningCount, seq, store, files, trail,
          disk, boot, exec, promises, now, ret>>

\* this.maxLogBytesPerStream = config.runner.maxLogBytesPerStream || 1024 * 1024:
\* a configured 0 is falsy and gives the default
maxLogBytesPerStream ==
  IF config.runner.maxLogBytesPerStream # 0
  THEN config.runner.maxLogBytesPerStream
  ELSE DefaultLogBytes

\* the part of the state that drainQueue, executeJob and finishJob work on
St == [jobs |-> jobs, queue |-> queue, runningCount |-> runningCount,
       seq |-> seq, store |-> store, files |-> files, trail |-> trail,
       exec |-> exec, promises |-> promises, disk |-> disk]

\* closure of executeJob before the job is handed to the executor
NoExec ==
  [spawned |-> FALSE,        \* spawn() was called: a child exists
   closed |-> FALSE,         \* the child emitted 'close'
   errored |-> FALSE,        \* the child emitted 'error'
   finished |-> FALSE,       \* let finished
   timedOut |-> FALSE,       \* let timedOut
   timeoutHandle |-> "none", \* none, armed, fired or cleared
   stdoutFd |-> FALSE,       \* the stdout log handle is open
   stderrFd |-> FALSE,       \* the stderr log handle is open
   sigterm |-> FALSE,        \* terminateChildProcess was called on the child
   stdoutPreviewBuf |-> << >>,  \* let stdoutPreviewBuf
   stderrPreviewBuf |-> << >>,  \* let stderrPreviewBuf
   transitions |-> 0,        \* terminal transitions the executor applied
   produced |-> [stdout |-> 0, stderr |-> 0],  \* bytes the child has written
   writeError |-> [stdout |-> FALSE, stderr |-> FALSE]]  \* fs.writeSync threw

\* no promise: an async submit, or a sync one before its executor ran
NoPromise == [registered |-> FALSE, state |-> "none", value |-> Null,
              calls |-> 0]   \* calls of job._resolvePromise so far

\* ret when the last step returned no failure: a callback, or an operation
\* that returned {ok: true, ...}
NoErr == [ok |-> TRUE, code |-> "OK"]
\* ret after an operation returned {ok: false, code}
Err(code) == [ok |-> FALSE, code |-> code]

(* --------------------------- job store --------------------------------- *)
\* stdoutRef and stderrRef are the jobId followed by a constant suffix: the
\* model keeps jobId for the references.
serializeJobForStore(job) ==
  [jobId |-> job.jobId, scriptId |-> job.scriptId, status |-> job.status,
   code |-> job.code, startedAt |-> job.startedAt, endedAt |-> job.endedAt,
   durationMs |-> job.durationMs, createdAt |-> job.createdAt, mode |-> job.mode,
   stdoutSize |-> job.stdoutSize, stderrSize |-> job.stderrSize,
   stdoutTruncated |-> job.stdoutTruncated,
   stderrTruncated |-> job.stderrTruncated,
   stdoutPreview |-> job.stdoutPreview, stderrPreview |-> job.stderrPreview]

serializeJob(job) ==
  [jobId |-> job.jobId, scriptId |-> job.scriptId, status |-> job.status,
   code |-> job.code, startedAt |-> job.startedAt, endedAt |-> job.endedAt,
   durationMs |-> job.durationMs, createdAt |-> job.createdAt, mode |-> job.mode,
   stdoutSize |-> job.stdoutSize, stderrSize |-> job.stderrSize,
   stdoutTruncated |-> job.stdoutTruncated,
   stderrTruncated |-> job.stderrTruncated,
   stdoutPreview |-> job.stdoutPreview, stderrPreview |-> job.stderrPreview]

\* ret after an async submitRun: the value {ok: true, async: true, job} its
\* promise is resolved with at once; a sync submitRun returns a pending
\* promise, kept in promises
AsyncAccepted(job) ==
  [ok |-> TRUE, code |-> "OK", async |-> TRUE, job |-> Some(serializeJob(job))]

\* getJob(jobId): null, or the snapshot of the job
getJob(st, jobId) ==
  IF jobId \notin DOMAIN st.jobs THEN Null
  ELSE Some(serializeJob(st.jobs[jobId]))

\* jobStoreFile before the first write
NoStoreFile == [kind |-> "absent", records |-> << >>]
\* jobStoreFile after fs.writeFileSync was cut short: no JSON document
TornStoreFile == [kind |-> "torn", records |-> << >>]

\* persistJobs(): fs.writeFileSync rewrites the file; when it throws, the
\* file is as it was or cut short, and the catch only logs
persistJobs(st) ==
  IF st.disk = "ok"
  THEN [st EXCEPT !.store =
          [kind |-> "json",
           records |-> [j \in DOMAIN st.jobs |-> serializeJobForStore(st.jobs[j])]]]
  ELSE IF st.disk = "full"
  THEN [st EXCEPT !.store = TornStoreFile]
  ELSE st

\* loadJobsFromDisk that recovers the running records only
loadJobsFromDiskRunningOnly(file, t) ==
  IF file.kind # "json" THEN << >>
  ELSE [i \in DOMAIN file.records |->
          LET job == file.records[i]
              recovered ==
                IF job.status = RUNNING
                THEN [job EXCEPT
                        !.status = FAILED,
                        !.code = Some(-1),
                        !.endedAt = Some(t),
                        !.durationMs =
                           IF job.startedAt # Null
                           THEN Some(IF t - Val(job.startedAt) > 0
                                     THEN t - Val(job.startedAt) ELSE 0)
                           ELSE @]
                ELSE job
          IN [jobId |-> recovered.jobId, scriptId |-> recovered.scriptId,
              mode |-> recovered.mode, args |-> Null,
              status |-> recovered.status, code |-> recovered.code,
              startedAt |-> recovered.startedAt, endedAt |-> recovered.endedAt,
              durationMs |-> recovered.durationMs,
              createdAt |-> recovered.createdAt, cancelRequested |-> FALSE,
              stdoutSize |-> recovered.stdoutSize,
              stderrSize |-> recovered.stderrSize,
              stdoutTruncated |-> recovered.stdoutTruncated,
              stderrTruncated |-> recovered.stderrTruncated,
              stdoutPreview |-> recovered.stdoutPreview,
              stderrPreview |-> recovered.stderrPreview]]

\* loadJobsFromDisk() at time t: the job map built from the store file.  A
\* file that is absent or that JSON.parse rejects loads nothing.  Every
\* record the runner writes has a jobId, strings, numbers, booleans and
\* nulls only, which JSON gives back as written; args is not in the file,
\* so a loaded job has none.
loadJobsFromDisk(file, t) ==
  IF file.kind # "json" THEN << >>
  ELSE [i \in DOMAIN file.records |->
          LET job == file.records[i]
              recovered ==
                IF job.status = RUNNING \/ job.status = QUEUED
                THEN [job EXCEPT
                        !.status = FAILED,
                        !.code = Some(-1),
                        !.endedAt = Some(t),
                        !.durationMs =
                           IF job.startedAt # Null
                           THEN Some(IF t - Val(job.startedAt) > 0
                                     THEN t - Val(job.startedAt) ELSE 0)
                           ELSE @]
                ELSE job
          IN [jobId |-> recovered.jobId, scriptId |-> recovered.scriptId,
              mode |-> recovered.mode, args |-> Null,
              status |-> recovered.status, code |-> recovered.code,
              startedAt |-> recovered.startedAt, endedAt |-> recovered.endedAt,
              durationMs |-> recovered.durationMs,
              createdAt |-> recovered.createdAt, cancelRequested |-> FALSE,
              stdoutSize |-> recovered.stdoutSize,
              stderrSize |-> recovered.stderrSize,
              stdoutTruncated |-> recovered.stdoutTruncated,
              stderrTruncated |-> recovered.stderrTruncated,
              stdoutPreview |-> recovered.stdoutPreview,
              stderrPreview |-> recovered.stderrPreview]]

nextJobId(st) == st.seq + 1

\* The jobId is `job_${Date.now()}_${seq}`: seq tells apart the jobs of one
\* process, and the clock those of two processes, which never run in the
\* same millisecond; the model keeps <<boot, seq>>.
createJob(st, scriptId, args, mode, t) ==
  LET jobId == <<boot, nextJobId(st)>>
      j == Len(st.jobs) + 1
      job == [jobId |-> jobId, scriptId |-> scriptId, mode |-> mode,
              args |-> Some(args), status |-> QUEUED,
              code |-> Null, startedAt |-> Null, endedAt |-> Null,
              durationMs |-> Null, createdAt |-> Some(t),
              cancelRequested |-> FALSE,
              stdoutSize |-> 0, stderrSize |-> 0,
              stdoutTruncated |-> FALSE, stderrTruncated |-> FALSE,
              stdoutPreview |-> << >>, stderrPreview |-> << >>]
  IN persistJobs([st EXCEPT
       !.seq = nextJobId(st),
       !.jobs = Append(@, job),
       !.trail = Append(@, <<QUEUED>>),
       !.files = [id \in DOMAIN @ \cup {jobId} |->
                    IF id \in DOMAIN @ THEN @[id]
                    ELSE [stdout |-> Null, stderr |-> Null]],
       !.exec = Append(@, NoExec),
       !.promises = Append(@, NoPromise)])

(* ------------------------ scheduler and executor ----------------------- *)
\* what fs.openSync does for a job's two log files: both open, or the
\* first (stdout) throws, or the second (stderr) throws after stdout opened
OpenOutcomes == {"ok", "stdout", "stderr"}

\* job._resolvePromise(job), when submitRun has registered it
resolvePromise(st, j) ==
  IF st.promises[j].registered /\ st.promises[j].state = "pending"
  THEN [st EXCEPT !.promises[j].state = "resolved",
                  !.promises[j].value = Some(serializeJob(st.jobs[j])),
                  !.promises[j].calls = @ + 1]
  ELSE IF st.promises[j].registered
  THEN [st EXCEPT !.promises[j].calls = @ + 1]
  ELSE st

closeLogFds(st, j) ==
  [st EXCEPT !.exec[j].stdoutFd = FALSE, !.exec[j].stderrFd = FALSE]

(* ------------------------------ log sink ------------------------------- *)
Min(a, b) == IF a <= b THEN a ELSE b

Streams == {"stdout", "stderr"}
sizeKey(stream) == IF stream = "stdout" THEN "stdoutSize" ELSE "stderrSize"
truncatedKey(stream) == IF stream = "stdout" THEN "stdoutTruncated" ELSE "stderrTruncated"
fdKey(stream) == IF stream = "stdout" THEN "stdoutFd" ELSE "stderrFd"

\* What the child writes: on each stream a fixed text in which "L", "T" are
\* the two bytes of one UTF-8 character; how the pipe cuts it into chunks is
\* left open.
ByteCycle == [stdout |-> <<"a", "L", "T", "b">>, stderr |-> <<"e", "L", "T", "f">>]
childByte(stream, k) == ByteCycle[stream][((k - 1) % 4) + 1]
childBytes(stream, from, n) == [i \in 1..n |-> childByte(stream, from + i)]

\* The texts the runner itself puts into the stderr preview, as bytes: "n"
\* is the newline they start with.
\* `\n${error.message}` of a child 'error' event
childErrorMessage == <<"n", "E">>
\* `\n<stream> log write error: ${error.message}`
logWriteErrorMessage == [stdout |-> <<"n", "O">>, stderr |-> <<"n", "R">>]
\* `failed to open log files: ${error.message}`, stored as text
openFailedMessage == <<"F">>

previewBufKey(stream) ==
  IF stream = "stdout" THEN "stdoutPreviewBuf" ELSE "stderrPreviewBuf"

\* appendTailBuffer keeping the start of what does not fit
appendTailBufferKeepsHead(current, chunk, maxBytes) ==
  IF maxBytes <= 0 THEN << >>
  ELSE LET combined == current \o chunk
       IN IF Len(combined) <= maxBytes THEN combined
          ELSE SubSeq(combined, 1, maxBytes)

appendTailBuffer(current, chunk, maxBytes) ==
  IF maxBytes <= 0 THEN << >>
  ELSE LET combined == current \o chunk
       IN IF Len(combined) <= maxBytes THEN combined
          ELSE SubSeq(combined, Len(combined) - maxBytes + 1, Len(combined))

\* writeLogChunk that sets the truncated flag only once the cap is reached
writeLogChunkLateFlag(st, j, stream, chunk) ==
  LET current == st.jobs[j][sizeKey(stream)]
  IN IF current >= maxLogBytesPerStream
     THEN [st EXCEPT !.jobs[j][truncatedKey(stream)] = TRUE]
     ELSE LET allowed == maxLogBytesPerStream - current
              toWrite == SubSeq(chunk, 1, Min(allowed, Len(chunk)))
          IN IF Len(toWrite) > 0 /\ ~st.exec[j][fdKey(stream)]
             THEN [st EXCEPT !.exec[j].writeError[stream] = TRUE]
             ELSE [st EXCEPT
                     !.files[st.jobs[j].jobId][stream] = Some(Val(@) \o toWrite),
                     !.jobs[j][sizeKey(stream)] = @ + Len(toWrite)]

\* writeLogChunk keeping the end of a chunk that does not fit
writeLogChunkKeepsTail(st, j, stream, chunk) ==
  LET current == st.jobs[j][sizeKey(stream)]
  IN IF current >= maxLogBytesPerStream
     THEN [st EXCEPT !.jobs[j][truncatedKey(stream)] = TRUE]
     ELSE LET allowed == maxLogBytesPerStream - current
              toWrite == SubSeq(chunk, Len(chunk) - Min(allowed, Len(chunk)) + 1,
                                Len(chunk))
          IN IF Len(toWrite) > 0 /\ ~st.exec[j][fdKey(stream)]
             THEN [st EXCEPT !.exec[j].writeError[stream] = TRUE]
             ELSE [st EXCEPT
                     !.files[st.jobs[j].jobId][stream] = Some(Val(@) \o toWrite),
                     !.jobs[j][sizeKey(stream)] = @ + Len(toWrite),
                     !.jobs[j][truncatedKey(stream)] =
                        IF Len(toWrite) < Len(chunk) THEN TRUE ELSE @]

\* writeLogChunk(fd, chunk, sizeKey, truncatedKey) of job j; fs.writeSync
\* throws on a handle that closeLogFds has set to null and when the file
\* system fails the write, which the 'data' handler catches
writeLogChunk(st, j, stream, chunk) ==
  LET current == st.jobs[j][sizeKey(stream)]
  IN IF current >= maxLogBytesPerStream
     THEN [st EXCEPT !.jobs[j][truncatedKey(stream)] = TRUE]
     ELSE LET allowed == maxLogBytesPerStream - current
              toWrite == SubSeq(chunk, 1, Min(allowed, Len(chunk)))
          IN IF Len(toWrite) > 0 /\ (~st.exec[j][fdKey(stream)] \/ st.disk # "ok")
             THEN [st EXCEPT !.exec[j].writeError[stream] = TRUE]
             ELSE [st EXCEPT
                     !.files[st.jobs[j].jobId][stream] = Some(Val(@) \o toWrite),
                     !.jobs[j][sizeKey(stream)] = @ + Len(toWrite),
                     !.jobs[j][truncatedKey(stream)] =
                        IF Len(toWrite) < Len(chunk) THEN TRUE ELSE @]

\* buffer.toString("utf8"): a lead byte followed by its continuation byte is
\* one character, a lead or continuation byte on its own is U+FFFD ("?")
RECURSIVE utf8Decode(_)
utf8Decode(bytes) ==
  IF Len(bytes) = 0 THEN << >>
  ELSE IF bytes[1] = "L"
  THEN IF Len(bytes) >= 2 /\ bytes[2] = "T"
       THEN <<"LT">> \o utf8Decode(SubSeq(bytes, 3, Len(bytes)))
       ELSE <<"?">> \o utf8Decode(Tail(bytes))
  ELSE IF bytes[1] = "T" THEN <<"?">> \o utf8Decode(Tail(bytes))
  ELSE <<bytes[1]>> \o utf8Decode(Tail(bytes))

\* getJobLogs(jobId, {stream, offset, limit}); offset and limit are Null
\* when the caller passes none or no integer
getJobLogs(st, jobId, stream, offset, limit) ==
  IF jobId \notin DOMAIN st.jobs
  THEN [ok |-> FALSE, code |-> "JOB_NOT_FOUND", offset |-> 0, nextOffset |-> 0,
        totalSize |-> 0, truncated |-> FALSE, data |-> << >>]
  ELSE IF stream # "stdout" /\ stream # "stderr"
  THEN [ok |-> FALSE, code |-> "INVALID_ARGS", offset |-> 0, nextOffset |-> 0,
        totalSize |-> 0, truncated |-> FALSE, data |-> << >>]
  ELSE LET job == st.jobs[jobId]
           safeOffset == IF offset # Null /\ Val(offset) >= 0 THEN Val(offset) ELSE 0
           safeLimitRaw == IF limit # Null /\ Val(limit) > 0 THEN Val(limit)
                           ELSE ReadLimitDefault
           safeLimit == Min(safeLimitRaw, ReadLimitCap)
           file == st.files[job.jobId][stream]
           empty(totalSize) ==
             [ok |-> TRUE, code |-> "OK", offset |-> safeOffset,
              nextOffset |-> safeOffset, totalSize |-> totalSize,
              truncated |-> job[truncatedKey(stream)], data |-> << >>]
       IN IF file = Null THEN empty(0)
          ELSE LET totalSize == Len(Val(file))
               IN IF safeOffset >= totalSize THEN empty(totalSize)
                  ELSE LET toRead == Min(safeLimit, totalSize - safeOffset)
                           buffer == SubSeq(Val(file), safeOffset + 1, safeOffset + toRead)
                       IN [ok |-> TRUE, code |-> "OK", offset |-> safeOffset,
                           nextOffset |-> safeOffset + Len(buffer),
                           totalSize |-> totalSize,
                           truncated |-> job[truncatedKey(stream)],
                           data |-> utf8Decode(buffer)]

\* fs.writeSync(fd, toWrite) inside writeLogChunk throws: there is something
\* to write, and the handle is null or the file system fails the write
writeSyncThrows(st, j, stream, chunk) ==
  /\ st.jobs[j][sizeKey(stream)] < maxLogBytesPerStream
  /\ Len(chunk) > 0
  /\ (~st.exec[j][fdKey(stream)] \/ st.disk # "ok")

\* the 'data' handler failing the job when the log write throws
onDataWriteErrorFatal(st, j, stream, chunk) ==
  LET buffered == [st EXCEPT !.exec[j][previewBufKey(stream)] =
                     appendTailBuffer(@, chunk, previewMaxBytes)]
      written == writeLogChunk(buffered, j, stream, chunk)
  IN IF writeSyncThrows(buffered, j, stream, chunk) /\ ~st.exec[j].finished
     THEN [written EXCEPT !.jobs[j].status = FAILED,
                          !.trail[j] = Append(@, FAILED),
                          !.jobs[j].code = Some(-1)]
     ELSE written

\* the 'data' handler of a stream of job j's child
onData(st, j, stream, chunk) ==
  LET buffered == [st EXCEPT !.exec[j][previewBufKey(stream)] =
                     appendTailBuffer(@, chunk, previewMaxBytes)]
      written == writeLogChunk(buffered, j, stream, chunk)
  IN IF writeSyncThrows(buffered, j, stream, chunk)
     THEN [written EXCEPT !.exec[j].stderrPreviewBuf =
             appendTailBuffer(@, logWriteErrorMessage[stream], previewMaxBytes)]
     ELSE written

RECURSIVE drainQueue(_, _, _)
RECURSIVE executeJob(_, _, _, _)

\* drainQueue with an if in place of the while: one entry taken per call
drainQueueOnce(st, t, openFail) ==
  IF st.runningCount < maxConcurrent /\ Len(st.queue) > 0
  THEN LET j == Head(st.queue)
           popped == [st EXCEPT !.queue = Tail(st.queue)]
       IN IF popped.jobs[j].cancelRequested
          THEN persistJobs([popped EXCEPT
                 !.jobs[j].status = CANCELED,
                 !.trail[j] = Append(@, CANCELED),
                 !.jobs[j].code = Some(-1),
                 !.jobs[j].endedAt = Some(t),
                 !.jobs[j].durationMs = Some(0)])
          ELSE executeJob(popped, j, t, openFail)
  ELSE st

\* drainQueue admitting while runningCount <= maxConcurrent
drainQueueOffByOne(st, t, openFail) ==
  IF st.runningCount <= maxConcurrent /\ Len(st.queue) > 0
  THEN LET j == Head(st.queue)
           popped == [st EXCEPT !.queue = Tail(st.queue)]
       IN IF popped.jobs[j].cancelRequested
          THEN drainQueue(
                 persistJobs([popped EXCEPT
                   !.jobs[j].status = CANCELED,
                   !.trail[j] = Append(@, CANCELED),
                   !.jobs[j].code = Some(-1),
                   !.jobs[j].endedAt = Some(t),
                   !.jobs[j].durationMs = Some(0)]),
                 t, openFail)
          ELSE drainQueue(executeJob(popped, j, t, openFail), t, openFail)
  ELSE st

\* drainQueue without the test of job.cancelRequested
drainQueueIgnoresCancel(st, t, openFail) ==
  IF st.runningCount < maxConcurrent /\ Len(st.queue) > 0
  THEN LET j == Head(st.queue)
           popped == [st EXCEPT !.queue = Tail(st.queue)]
       IN drainQueue(executeJob(popped, j, t, openFail), t, openFail)
  ELSE st

\* t is the clock during the handler, openFail the outcome of opening the
\* log files of each job that may be admitted
drainQueue(st, t, openFail) ==
  IF st.runningCount < maxConcurrent /\ Len(st.queue) > 0
  THEN LET j == Head(st.queue)
           popped == [st EXCEPT !.queue = Tail(st.queue)]
       IN IF popped.jobs[j].cancelRequested
          THEN drainQueue(
                 persistJobs([popped EXCEPT
                   !.jobs[j].status = CANCELED,
                   !.trail[j] = Append(@, CANCELED),
                   !.jobs[j].code = Some(-1),
                   !.jobs[j].endedAt = Some(t),
                   !.jobs[j].durationMs = Some(0)]),
                 t, openFail)
          ELSE drainQueue(executeJob(popped, j, t, openFail), t, openFail)
  ELSE st

\* the timer armed for every script
setTimeoutHandleAlways(script) == "armed"

\* if (script.timeoutSec > 0) timeoutHandle = setTimeout(...)
setTimeoutHandle(script) ==
  IF script.timeoutSec > 0 THEN "armed" ELSE "none"

\* executeJob opening the log files before it marks the job running
executeJobOpensFirst(st, j, t, openFail) ==
  IF openFail[j] # "ok"
  THEN LET failed == [st EXCEPT
                !.jobs[j].status = FAILED,
                !.trail[j] = Append(@, FAILED),
                !.jobs[j].code = Some(-1),
                !.jobs[j].endedAt = Some(t),
                !.jobs[j].durationMs = Some(0),
                !.jobs[j].stderrPreview = openFailedMessage,
                !.exec[j].stdoutFd = (openFail[j] = "stderr"),
                !.files[st.jobs[j].jobId].stdout =
                   IF openFail[j] = "stderr" THEN Some(<< >>) ELSE @,
                !.exec[j].transitions = @ + 1]
       IN resolvePromise(drainQueue(persistJobs(failed), t, openFail), j)
  ELSE [persistJobs([st EXCEPT
             !.runningCount = @ + 1,
             !.jobs[j].status = RUNNING,
             !.trail[j] = Append(@, RUNNING),
             !.jobs[j].startedAt = Some(t)]) EXCEPT
          !.files[st.jobs[j].jobId] =
             [stdout |-> Some(<< >>), stderr |-> Some(<< >>)],
          !.exec[j].spawned = TRUE,
          !.exec[j].stdoutFd = TRUE,
          !.exec[j].stderrFd = TRUE,
          !.exec[j].timeoutHandle =
             setTimeoutHandle(scriptMap[st.jobs[j].scriptId])]

\* executeJob whose catch of a log-open failure keeps the slot
executeJobKeepsSlot(st, j, t, openFail) ==
  LET started == persistJobs([st EXCEPT
                   !.runningCount = @ + 1,
                   !.jobs[j].status = RUNNING,
                   !.trail[j] = Append(@, RUNNING),
                   !.jobs[j].startedAt = Some(t)])
  IN IF openFail[j] # "ok"
     THEN LET failed == [started EXCEPT
                   !.jobs[j].status = FAILED,
                   !.trail[j] = Append(@, FAILED),
                   !.jobs[j].code = Some(-1),
                   !.jobs[j].endedAt = Some(t),
                   !.jobs[j].durationMs = Some(t - t),
                   !.jobs[j].stderrPreview = openFailedMessage,
                   !.exec[j].stdoutFd = (openFail[j] = "stderr"),
                   !.files[st.jobs[j].jobId].stdout =
                      IF openFail[j] = "stderr" THEN Some(<< >>) ELSE @,
                   !.exec[j].transitions = @ + 1]
          IN resolvePromise(drainQueue(persistJobs(failed), t, openFail), j)
     ELSE [started EXCEPT
             !.files[st.jobs[j].jobId] =
                [stdout |-> Some(<< >>), stderr |-> Some(<< >>)],
             !.exec[j].spawned = TRUE,
             !.exec[j].stdoutFd = TRUE,
             !.exec[j].stderrFd = TRUE,
             !.exec[j].timeoutHandle =
                setTimeoutHandle(scriptMap[st.jobs[j].scriptId])]

executeJob(st, j, t, openFail) ==
  LET started == persistJobs([st EXCEPT
                   !.runningCount = @ + 1,
                   !.jobs[j].status = RUNNING,
                   !.trail[j] = Append(@, RUNNING),
                   !.jobs[j].startedAt = Some(t)])
  IN IF openFail[j] # "ok"
     THEN \* catch: the job fails without a child; an opened stdout handle
          \* is not closed here
          LET failed == [started EXCEPT
                   !.jobs[j].status = FAILED,
                   !.trail[j] = Append(@, FAILED),
                   !.jobs[j].code = Some(-1),
                   !.jobs[j].endedAt = Some(t),
                   !.jobs[j].durationMs = Some(t - t),
                   !.jobs[j].stderrPreview = openFailedMessage,
                   !.exec[j].stdoutFd = (openFail[j] = "stderr"),
                   !.files[st.jobs[j].jobId].stdout =
                      IF openFail[j] = "stderr" THEN Some(<< >>) ELSE @,
                   !.exec[j].transitions = @ + 1,
                   !.runningCount = @ - 1]
          IN resolvePromise(drainQueue(persistJobs(failed), t, openFail), j)
     ELSE [started EXCEPT
             !.files[st.jobs[j].jobId] =
                [stdout |-> Some(<< >>), stderr |-> Some(<< >>)],
             !.exec[j].spawned = TRUE,
             !.exec[j].stdoutFd = TRUE,
             !.exec[j].stderrFd = TRUE,
             !.exec[j].timeoutHandle =
                setTimeoutHandle(scriptMap[st.jobs[j].scriptId])]

\* finishJob without the finished flag
finishJobUnguarded(st, j, status, code, t, openFail) ==
  LET done == [closeLogFds(st, j) EXCEPT
                 !.exec[j].finished = TRUE,
                 !.exec[j].timeoutHandle =
                    IF @ = "armed" THEN "cleared" ELSE @,
                 !.exec[j].transitions = @ + 1,
                 !.jobs[j].stdoutPreview = utf8Decode(st.exec[j].stdoutPreviewBuf),
                 !.jobs[j].stderrPreview = utf8Decode(st.exec[j].stderrPreviewBuf),
                 !.jobs[j].status = status,
                 !.trail[j] = Append(@, status),
                 !.jobs[j].code = Some(code),
                 !.jobs[j].endedAt = Some(t),
                 !.jobs[j].durationMs = Some(t - Val(st.jobs[j].startedAt)),
                 !.runningCount = @ - 1]
  IN resolvePromise(drainQueue(persistJobs(done), t, openFail), j)

\* finishJob without clearTimeout
finishJobKeepsTimer(st, j, status, code, t, openFail) ==
  IF st.exec[j].finished
  THEN st
  ELSE LET done == [closeLogFds(st, j) EXCEPT
                 !.exec[j].finished = TRUE,
                 !.exec[j].transitions = @ + 1,
                 !.jobs[j].stdoutPreview = utf8Decode(st.exec[j].stdoutPreviewBuf),
                 !.jobs[j].stderrPreview = utf8Decode(st.exec[j].stderrPreviewBuf),
                 !.jobs[j].status = status,
                 !.trail[j] = Append(@, status),
                 !.jobs[j].code = Some(code),
                 !.jobs[j].endedAt = Some(t),
                 !.jobs[j].durationMs = Some(t - Val(st.jobs[j].startedAt)),
                 !.runningCount = @ - 1]
       IN resolvePromise(drainQueue(persistJobs(done), t, openFail), j)

\* finishJob without the call of drainQueue
finishJobNoDrain(st, j, status, code, t, openFail) ==
  IF st.exec[j].finished
  THEN st
  ELSE LET done == [closeLogFds(st, j) EXCEPT
                 !.exec[j].finished = TRUE,
                 !.exec[j].timeoutHandle =
                    IF @ = "armed" THEN "cleared" ELSE @,
                 !.exec[j].transitions = @ + 1,
                 !.jobs[j].stdoutPreview = utf8Decode(st.exec[j].stdoutPreviewBuf),
                 !.jobs[j].stderrPreview = utf8Decode(st.exec[j].stderrPreviewBuf),
                 !.jobs[j].status = status,
                 !.trail[j] = Append(@, status),
                 !.jobs[j].code = Some(code),
                 !.jobs[j].endedAt = Some(t),
                 !.jobs[j].durationMs = Some(t - Val(st.jobs[j].startedAt)),
                 !.runningCount = @ - 1]
       IN resolvePromise(persistJobs(done), j)

\* finishJob answering the caller before it writes the result
finishJobResolvesFirst(st, j, status, code, t, openFail) ==
  IF st.exec[j].finished
  THEN st
  ELSE LET answered == resolvePromise(st, j)
           done == [closeLogFds(answered, j) EXCEPT
                 !.exec[j].finished = TRUE,
                 !.exec[j].timeoutHandle =
                    IF @ = "armed" THEN "cleared" ELSE @,
                 !.exec[j].transitions = @ + 1,
                 !.jobs[j].stdoutPreview = utf8Decode(st.exec[j].stdoutPreviewBuf),
                 !.jobs[j].stderrPreview = utf8Decode(st.exec[j].stderrPreviewBuf),
                 !.jobs[j].status = status,
                 !.trail[j] = Append(@, status),
                 !.jobs[j].code = Some(code),
                 !.jobs[j].endedAt = Some(t),
                 !.jobs[j].durationMs = Some(t - Val(st.jobs[j].startedAt)),
                 !.runningCount = @ - 1]
       IN drainQueue(persistJobs(done), t, openFail)

finishJob(st, j, status, code, t, openFail) ==
  IF st.exec[j].finished
  THEN st
  ELSE LET done == [closeLogFds(st, j) EXCEPT
                 !.exec[j].finished = TRUE,
                 !.exec[j].timeoutHandle =
                    IF @ = "armed" THEN "cleared" ELSE @,
                 !.exec[j].transitions = @ + 1,
                 !.jobs[j].stdoutPreview = utf8Decode(st.exec[j].stdoutPreviewBuf),
                 !.jobs[j].stderrPreview = utf8Decode(st.exec[j].stderrPreviewBuf),
                 !.jobs[j].status = status,
                 !.trail[j] = Append(@, status),
                 !.jobs[j].code = Some(code),
                 !.jobs[j].endedAt = Some(t),
                 !.jobs[j].durationMs = Some(t - Val(st.jobs[j].startedAt)),
                 !.runningCount = @ - 1]
       IN resolvePromise(drainQueue(persistJobs(done), t, openFail), j)

\* enqueue that pushes the entry and leaves the queue undrained
enqueueNoDrain(st, j, t, openFail) ==
  [st EXCEPT !.queue = Append(@, j)]

\* enqueue serving the sync jobs, whose caller waits, before the others
enqueueSyncAhead(st, j, t, openFail) ==
  drainQueue([st EXCEPT !.queue = IF st.jobs[j].mode = "sync"
                                  THEN <<j>> \o @ ELSE Append(@, j)],
             t, openFail)

\* enqueue putting the job at the head of the queue
enqueueFront(st, j, t, openFail) ==
  drainQueue([st EXCEPT !.queue = <<j>> \o @], t, openFail)

enqueue(st, j, t, openFail) ==
  drainQueue([st EXCEPT !.queue = Append(@, j)], t, openFail)

\* the close handler taking 0 for an exit without code
closeDecisionCodeOrZero(timedOut, cancelRequested, code, signal) ==
  IF timedOut THEN <<TIMED_OUT, -1>>
  ELSE IF cancelRequested THEN <<CANCELED, -1>>
  ELSE IF signal # Null THEN <<FAILED, -1>>
  ELSE IF code = Some(0) THEN <<SUCCEEDED, 0>>
  ELSE <<FAILED, IF code = Null THEN 0 ELSE Val(code)>>

\* the close handler testing job.cancelRequested before timedOut
closeDecisionCancelFirst(timedOut, cancelRequested, code, signal) ==
  IF cancelRequested THEN <<CANCELED, -1>>
  ELSE IF timedOut THEN <<TIMED_OUT, -1>>
  ELSE IF signal # Null THEN <<FAILED, -1>>
  ELSE IF code = Some(0) THEN <<SUCCEEDED, 0>>
  ELSE <<FAILED, IF code = Null THEN -1 ELSE Val(code)>>

\* child.on("close"): the terminal (status, code) for an exit (code, signal)
closeDecision(timedOut, cancelRequested, code, signal) ==
  IF timedOut THEN <<TIMED_OUT, -1>>
  ELSE IF cancelRequested THEN <<CANCELED, -1>>
  ELSE IF signal # Null THEN <<FAILED, -1>>
  ELSE IF code = Some(0) THEN <<SUCCEEDED, 0>>
  ELSE <<FAILED, IF code = Null THEN -1 ELSE Val(code)>>

(* ------------------------------ actions -------------------------------- *)
\* the construction of a runner on an empty data directory
Constructed ==
  /\ maxConcurrent \in 1..MaxSlots
  /\ jobs = << >>
  /\ queue = << >>
  /\ runningCount = 0
  /\ seq = 0
  /\ store = NoStoreFile
  /\ files = << >>
  /\ trail = << >>
  /\ disk = "ok"
  /\ boot = 0
  /\ exec = << >>
  /\ promises = << >>
  /\ now = 0
  /\ ret = NoErr

Init ==
  /\ config = [runner |-> [maxLogBytesPerStream |-> ConfiguredLogBytes]]
  /\ Constructed

\* the runner configured with a log cap of 0 bytes, or with a positive one
InitCap ==
  /\ config \in {[runner |-> [maxLogBytesPerStream |-> n]] :
                   n \in {0, ConfiguredLogBytes}}
  /\ Constructed

\* the runner state after a handler has run on St
Commit(st) ==
  /\ jobs' = st.jobs
  /\ queue' = st.queue
  /\ runningCount' = st.runningCount
  /\ seq' = st.seq
  /\ store' = st.store
  /\ files' = st.files
  /\ trail' = st.trail
  /\ exec' = st.exec
  /\ promises' = st.promises

RunnerState == <<jobs, queue, runningCount, seq, store, files, trail, exec, promises>>

\* submitRun creating the job before it looks at the verdict on args
SubmitRunCreatesFirst(scriptId, args, mode, openFail) ==
  LET validated == validateRequest(scriptId, args)
  IN IF scriptId \notin DOMAIN scriptMap
     THEN /\ ret' = Err(validated.code)
          /\ UNCHANGED <<config, disk, maxConcurrent, RunnerState, boot, now>>
     ELSE LET script == scriptMap[scriptId]
              resolvedMode == resolveMode(script, mode)
              created == createJob(St, script.id, args.items, resolvedMode, now)
              j == Len(created.jobs)
              queued == enqueue(created, j, now, openFail)
          IN IF ~validated.ok
             THEN /\ Commit(created)
                  /\ ret' = Err(validated.code)
                  /\ UNCHANGED <<config, disk, maxConcurrent, boot, now>>
             ELSE /\ Commit(IF resolvedMode = "async"
                             THEN queued
                             ELSE [queued EXCEPT !.promises[j] =
                                     [registered |-> TRUE, state |-> "pending",
                                      value |-> Null, calls |-> 0]])
                  /\ ret' = NoErr
                  /\ UNCHANGED <<config, disk, maxConcurrent, boot, now>>

\* submitRun taking the snapshot of an async job before it enqueues the job
SubmitRunSnapshotsEarly(scriptId, args, mode, openFail) ==
  LET validated == validateRequest(scriptId, args)
  IN IF ~validated.ok
     THEN /\ ret' = Err(validated.code)
          /\ UNCHANGED <<config, disk, maxConcurrent, RunnerState, boot, now>>
     ELSE LET script == scriptMap[scriptId]
              resolvedMode == resolveMode(script, mode)
              created == createJob(St, script.id, args.items, resolvedMode, now)
              j == Len(created.jobs)
              queued == enqueue(created, j, now, openFail)
          IN /\ Commit(IF resolvedMode = "async"
                       THEN queued
                       ELSE [queued EXCEPT !.promises[j] =
                               [registered |-> TRUE, state |-> "pending",
                                value |-> Null, calls |-> 0]])
             /\ ret' = IF resolvedMode = "async"
                       THEN AsyncAccepted(created.jobs[j])
                       ELSE NoErr
             /\ UNCHANGED <<config, disk, maxConcurrent, boot, now>>

\* submitRun({scriptId, args, mode}); openFail[j] is what opening the log
\* files of job j does if j is admitted during the call
SubmitRun(scriptId, args, mode, openFail) ==
  LET validated == validateRequest(scriptId, args)
  IN IF ~validated.ok
     THEN /\ ret' = Err(validated.code)
          /\ UNCHANGED <<config, disk, maxConcurrent, RunnerState, boot, now>>
     ELSE LET script == scriptMap[scriptId]
              resolvedMode == resolveMode(script, mode)
              created == createJob(St, script.id, args.items, resolvedMode, now)
              j == Len(created.jobs)
              queued == enqueue(created, j, now, openFail)
          IN /\ Commit(IF resolvedMode = "async"
                       THEN queued
                       ELSE [queued EXCEPT !.promises[j] =
                               [registered |-> TRUE, state |-> "pending",
                                value |-> Null, calls |-> 0]])
             /\ ret' = IF resolvedMode = "async"
                       THEN AsyncAccepted(queued.jobs[j])
                       ELSE NoErr
             /\ UNCHANGED <<config, disk, maxConcurrent, boot, now>>

\* what cancelJob returns: {ok: false, code} or {ok: true, job: snapshot}
Rejected(code) == [ok |-> FALSE, code |-> code, job |-> Null]
Accepted(job) == [ok |-> TRUE, code |-> "OK", job |-> Some(serializeJob(job))]

\* cancelJob without the early return for a terminal job
cancelJobNoTerminalCheck(st, jobId, t) ==
  IF jobId \notin DOMAIN st.jobs
  THEN [st |-> st, ret |-> Rejected("JOB_NOT_FOUND")]
  ELSE LET marked == [st EXCEPT !.jobs[jobId].cancelRequested = TRUE]
           after ==
             IF st.jobs[jobId].status = RUNNING /\ st.exec[jobId].spawned
             THEN [marked EXCEPT !.exec[jobId].sigterm = TRUE]
             ELSE IF st.jobs[jobId].status = QUEUED
             THEN persistJobs([marked EXCEPT
                    !.jobs[jobId].status = CANCELED,
                    !.trail[jobId] = Append(@, CANCELED),
                    !.jobs[jobId].code = Some(-1),
                    !.jobs[jobId].endedAt = Some(t),
                    !.jobs[jobId].durationMs = Some(0)])
             ELSE marked
       IN [st |-> after, ret |-> Accepted(after.jobs[jobId])]

\* cancelJob marking every job that is not running as canceled
cancelJobRestamps(st, jobId, t) ==
  IF jobId \notin DOMAIN st.jobs
  THEN [st |-> st, ret |-> Rejected("JOB_NOT_FOUND")]
  ELSE LET marked == [st EXCEPT !.jobs[jobId].cancelRequested = TRUE]
           after ==
             IF st.jobs[jobId].status = RUNNING /\ st.exec[jobId].spawned
             THEN [marked EXCEPT !.exec[jobId].sigterm = TRUE]
             ELSE persistJobs([marked EXCEPT
                    !.jobs[jobId].status = CANCELED,
                    !.trail[jobId] = Append(@, CANCELED),
                    !.jobs[jobId].code = Some(-1),
                    !.jobs[jobId].endedAt = Some(t),
                    !.jobs[jobId].durationMs = Some(0)])
       IN [st |-> after, ret |-> Accepted(after.jobs[jobId])]

\* cancelJob ending a running job itself instead of leaving it to 'close'
cancelJobEndsRunning(st, jobId, t) ==
  IF jobId \notin DOMAIN st.jobs
  THEN [st |-> st, ret |-> Rejected("JOB_NOT_FOUND")]
  ELSE IF st.jobs[jobId].status \in Terminal
  THEN [st |-> st, ret |-> Accepted(st.jobs[jobId])]
  ELSE LET marked == [st EXCEPT !.jobs[jobId].cancelRequested = TRUE]
           after ==
             IF st.jobs[jobId].status = RUNNING /\ st.exec[jobId].spawned
             THEN persistJobs([marked EXCEPT
                    !.exec[jobId].sigterm = TRUE,
                    !.jobs[jobId].status = CANCELED,
                    !.trail[jobId] = Append(@, CANCELED),
                    !.jobs[jobId].code = Some(-1),
                    !.jobs[jobId].endedAt = Some(t)])
             ELSE IF st.jobs[jobId].status = QUEUED
             THEN persistJobs([marked EXCEPT
                    !.jobs[jobId].status = CANCELED,
                    !.trail[jobId] = Append(@, CANCELED),
                    !.jobs[jobId].code = Some(-1),
                    !.jobs[jobId].endedAt = Some(t),
                    !.jobs[jobId].durationMs = Some(0)])
             ELSE marked
       IN [st |-> after, ret |-> Accepted(after.jobs[jobId])]

\* cancelJob that does not stamp the end of a job it cancels in the queue
cancelJobNoEndedAt(st, jobId, t) ==
  IF jobId \notin DOMAIN st.jobs
  THEN [st |-> st, ret |-> Rejected("JOB_NOT_FOUND")]
  ELSE IF st.jobs[jobId].status \in Terminal
  THEN [st |-> st, ret |-> Accepted(st.jobs[jobId])]
  ELSE LET marked == [st EXCEPT !.jobs[jobId].cancelRequested = TRUE]
           after ==
             IF st.jobs[jobId].status = RUNNING /\ st.exec[jobId].spawned
             THEN [marked EXCEPT !.exec[jobId].sigterm = TRUE]
             ELSE IF st.jobs[jobId].status = QUEUED
             THEN persistJobs([marked EXCEPT
                    !.jobs[jobId].status = CANCELED,
                    !.trail[jobId] = Append(@, CANCELED),
                    !.jobs[jobId].code = Some(-1),
                    !.jobs[jobId].durationMs = Some(0)])
             ELSE marked
       IN [st |-> after, ret |-> Accepted(after.jobs[jobId])]

\* cancelJob(jobId) at time t: the runner state it leaves and what it returns
cancelJob(st, jobId, t) ==
  IF jobId \notin DOMAIN st.jobs
  THEN [st |-> st, ret |-> Rejected("JOB_NOT_FOUND")]
  ELSE IF st.jobs[jobId].status \in Terminal
  THEN [st |-> st, ret |-> Accepted(st.jobs[jobId])]
  ELSE LET marked == [st EXCEPT !.jobs[jobId].cancelRequested = TRUE]
           after ==
             IF st.jobs[jobId].status = RUNNING /\ st.exec[jobId].spawned
             THEN [marked EXCEPT !.exec[jobId].sigterm = TRUE]
             ELSE IF st.jobs[jobId].status = QUEUED
             THEN persistJobs([marked EXCEPT
                    !.jobs[jobId].status = CANCELED,
                    !.trail[jobId] = Append(@, CANCELED),
                    !.jobs[jobId].code = Some(-1),
                    !.jobs[jobId].endedAt = Some(t),
                    !.jobs[jobId].durationMs = Some(0)])
             ELSE marked
       IN [st |-> after, ret |-> Accepted(after.jobs[jobId])]

CancelJob(jobId) ==
  LET r == cancelJob(St, jobId, now)
  IN /\ Commit(r.st)
     /\ ret' = IF r.ret.ok THEN NoErr ELSE Err(r.ret.code)
     /\ UNCHANGED <<config, disk, maxConcurrent, boot, now>>

\* a getJobLogs call: it reads and changes nothing of the runner
GetJobLogs(jobId, stream) ==
  LET r == getJobLogs(St, jobId, stream, Null, Null)
  IN /\ ret' = IF r.ok THEN NoErr ELSE Err(r.code)
     /\ UNCHANGED <<config, disk, maxConcurrent, RunnerState, boot, now>>

\* the setTimeout callback of executeJob
TimerFire(j) ==
  /\ j \in DOMAIN jobs
  /\ exec[j].timeoutHandle = "armed"
  /\ exec' = [exec EXCEPT ![j].timedOut = TRUE,
                          ![j].timeoutHandle = "fired",
                          ![j].sigterm = TRUE]
  /\ ret' = NoErr
  /\ UNCHANGED <<config, disk, maxConcurrent, jobs, queue, runningCount, seq, store, files, trail,
               boot, promises, now>>

\* child.on("error")
onError(st, j, t, openFail) ==
  finishJob([st EXCEPT
               !.exec[j].errored = TRUE,
               !.exec[j].stderrPreviewBuf =
                  appendTailBuffer(@, childErrorMessage, previewMaxBytes)],
            j, FAILED, -1, t, openFail)

ChildError(j, openFail) ==
  /\ j \in DOMAIN jobs
  /\ exec[j].spawned /\ ~exec[j].closed /\ ~exec[j].errored
  /\ Commit(onError(St, j, now, openFail))
  /\ ret' = NoErr
  /\ UNCHANGED <<config, disk, maxConcurrent, boot, now>>

\* child.on("close")
onClose(st, j, code, signal, t, openFail) ==
  LET d == closeDecision(st.exec[j].timedOut, st.jobs[j].cancelRequested,
                         code, signal)
  IN finishJob([st EXCEPT !.exec[j].closed = TRUE], j, d[1], d[2], t, openFail)

ChildClose(j, code, signal, openFail) ==
  /\ j \in DOMAIN jobs
  /\ exec[j].spawned /\ ~exec[j].closed
  /\ Commit(onClose(St, j, code, signal, now, openFail))
  /\ ret' = NoErr
  /\ UNCHANGED <<config, disk, maxConcurrent, boot, now>>

\* child.stdout.on("data") and child.stderr.on("data"): the next n bytes of
\* the child's output on the stream arrive as one chunk
ChildData(j, stream, n) ==
  /\ j \in DOMAIN jobs
  /\ exec[j].spawned /\ ~exec[j].closed
  /\ exec[j].produced[stream] + n <= MaxProduced
  /\ LET chunk == childBytes(stream, exec[j].produced[stream], n)
     IN Commit(onData([St EXCEPT !.exec[j].produced[stream] = @ + n],
                      j, stream, chunk))
  /\ ret' = NoErr
  /\ UNCHANGED <<config, disk, maxConcurrent, boot, now>>

\* The process stops and a new ScriptRunner is constructed on the same
\* jobStoreFile and logsDir.  With torn, the process stopped inside the
\* fs.writeFileSync of a persistJobs (that of the createJob of a request
\* being served), after the file was truncated and before its content was
\* complete.  The constructor resets the fields and loads the file; the
\* closures, promises and timers of the old process are gone.
Restart(torn) ==
  /\ boot < MaxBoots
  /\ boot' = boot + 1
  /\ store' = IF torn THEN TornStoreFile ELSE store
  /\ jobs' = loadJobsFromDisk(store', now)
  /\ queue' = << >>
  /\ runningCount' = 0
  /\ seq' = 0
  /\ exec' = [i \in DOMAIN jobs' |-> NoExec]
  /\ promises' = [i \in DOMAIN jobs' |-> NoPromise]
  /\ trail' = [i \in DOMAIN jobs' |-> <<jobs'[i].status>>]
  /\ ret' = NoErr
  /\ UNCHANGED <<config, disk, maxConcurrent, files, now>>

\* the file system starts or stops failing writes (no space left, the
\* directory made read-only, and back)
DiskChange(d) ==
  /\ d # disk
  /\ disk' = d
  /\ ret' = NoErr
  /\ UNCHANGED <<config, maxConcurrent, RunnerState, boot, now>>

\* time passes
Tick ==
  /\ now < MaxClock
  /\ now' = now + 1
  /\ ret' = NoErr
  /\ UNCHANGED <<config, disk, maxConcurrent, RunnerState, boot>>

(* ------------------------------ inputs --------------------------------- *)
DiskInputs == {"ok", "denied", "full"}
ModeInputs == {"sync", "async", "unset"}
ScriptIdInputs == ScriptIds \cup {"nope"}
StreamInputs == {"stdout", "stderr", "stdin"}

\* the (code, signal) pairs a 'close' event carries
ExitInputs ==
  { <<Some(0), Null>>, <<Some(1), Null>>, <<Null, Some("SIGTERM")>>, <<Null, Null>> }

QueuedIds == {queue[i] : i \in DOMAIN queue}

\* the outcomes of opening the log files of the jobs in cands, the jobs a
\* handler may admit; the other jobs are not opened
OpenInputs(cands, outcomes) ==
  { [j \in 1..(Len(jobs) + 1) |-> IF j \in cands THEN f[j] ELSE "ok"] :
      f \in [cands -> outcomes] }

\* a submitRun call: the queued jobs and the new one may be admitted by an
\* accepted request, none by a rejected one
SubmitInputs(scriptId, args, outcomes) ==
  IF validateRequest(scriptId, args).ok
  THEN OpenInputs(QueuedIds \cup {Len(jobs) + 1}, outcomes)
  ELSE OpenInputs({}, outcomes)

(* --------------------------- specifications ---------------------------- *)
\* The runner writes timestamps and never reads them: no guard of
\* drainQueue, executeJob, finishJob or cancelJob depends on the clock.
\* Spec and SpecQueue therefore let the clock stand still, and SpecClock
\* lets it advance.

\* Spec: every operation with every input (rejected requests included) and
\* every event, for up to MaxJobs jobs.
Next ==
  \/ \E scriptId \in ScriptIdInputs, args \in ArgInputs, mode \in ModeInputs :
       \E openFail \in SubmitInputs(scriptId, args, OpenOutcomes) :
         /\ seq < MaxJobs \/ ~validateRequest(scriptId, args).ok
         /\ SubmitRun(scriptId, args, mode, openFail)
  \/ \E jobId \in 1..(MaxJobs + 1) : CancelJob(jobId)
  \/ \E jobId \in 1..(MaxJobs + 1), stream \in StreamInputs : GetJobLogs(jobId, stream)
  \/ \E j \in DOMAIN jobs : TimerFire(j)
  \/ \E j \in DOMAIN jobs, openFail \in OpenInputs(QueuedIds, OpenOutcomes) :
       ChildError(j, openFail)
  \/ \E j \in DOMAIN jobs, e \in ExitInputs, openFail \in OpenInputs(QueuedIds, OpenOutcomes) :
       ChildClose(j, e[1], e[2], openFail)

Spec == Init /\ [][Next]_vars

\* SpecClock: accepted requests, every event, and the clock.
NextClock ==
  \/ \E scriptId \in ScriptIds, mode \in {"sync", "unset"} :
       \E openFail \in SubmitInputs(scriptId, Arr(<< >>), {"ok", "stdout"}) :
         /\ seq < MaxJobs
         /\ SubmitRun(scriptId, Arr(<< >>), mode, openFail)
  \/ \E jobId \in DOMAIN jobs : CancelJob(jobId)
  \/ \E j \in DOMAIN jobs : TimerFire(j)
  \/ \E j \in DOMAIN jobs, openFail \in OpenInputs(QueuedIds, {"ok", "stdout"}) :
       ChildError(j, openFail)
  \/ \E j \in DOMAIN jobs, e \in ExitInputs, openFail \in OpenInputs(QueuedIds, {"ok", "stdout"}) :
       ChildClose(j, e[1], e[2], openFail)
  \/ Tick

SpecClock == Init /\ [][NextClock]_vars

\* SpecQueue: the scheduler with up to MaxQueueJobs jobs, so that several
\* jobs wait in the queue; accepted requests that name no mode.
NextQueue ==
  \/ \E scriptId \in ScriptIds :
       \E openFail \in SubmitInputs(scriptId, Arr(<< >>), {"ok", "stdout"}) :
         /\ seq < MaxQueueJobs
         /\ SubmitRun(scriptId, Arr(<< >>), "unset", openFail)
  \/ \E jobId \in DOMAIN jobs : CancelJob(jobId)
  \/ \E j \in DOMAIN jobs : TimerFire(j)
  \/ \E j \in DOMAIN jobs, openFail \in OpenInputs(QueuedIds, {"ok", "stdout"}) :
       ChildError(j, openFail)
  \/ \E j \in DOMAIN jobs, e \in {<<Some(0), Null>>, <<Null, Some("SIGTERM")>>},
        openFail \in OpenInputs(QueuedIds, {"ok", "stdout"}) :
       ChildClose(j, e[1], e[2], openFail)

SpecQueue == Init /\ [][NextQueue]_vars

\* SpecLive: two jobs of either script, with log-open failures, cancels,
\* the timer, 'error' and 'close'.
NextLive ==
  \/ \E scriptId \in ScriptIds :
       \E openFail \in SubmitInputs(scriptId, Arr(<< >>), {"ok", "stdout"}) :
         /\ seq < MaxLiveJobs
         /\ SubmitRun(scriptId, Arr(<< >>), "unset", openFail)
  \/ \E jobId \in DOMAIN jobs : CancelJob(jobId)
  \/ \E j \in DOMAIN jobs : TimerFire(j)
  \/ \E j \in DOMAIN jobs, openFail \in OpenInputs(QueuedIds, {"ok", "stdout"}) :
       ChildError(j, openFail)
  \/ \E j \in DOMAIN jobs, e \in {<<Some(0), Null>>, <<Null, Some("SIGTERM")>>},
        openFail \in OpenInputs(QueuedIds, {"ok", "stdout"}) :
       ChildClose(j, e[1], e[2], openFail)

\* the 'close' event of the child of job j, with any exit: the steps of
\* ChildClose for j, the state the handler leaves computed once
ChildCloses(j) ==
  /\ j \in DOMAIN jobs
  /\ exec[j].spawned /\ ~exec[j].closed
  /\ \E e \in {<<Some(0), Null>>, <<Null, Some("SIGTERM")>>},
        openFail \in OpenInputs(QueuedIds, {"ok", "stdout"}) :
       \E st \in {onClose(St, j, e[1], e[2], now, openFail)} : Commit(st)
  /\ ret' = NoErr
  /\ UNCHANGED <<config, disk, maxConcurrent, boot, now>>

\* every child that was spawned emits 'close' in the end, and the event
\* loop then runs the handler
SpecLive ==
  /\ Init
  /\ [][NextLive]_vars
  /\ \A j \in 1..MaxLiveJobs : WF_vars(ChildCloses(j))

\* SpecLog: one job whose child writes on both streams in chunks of every
\* size, with every way the job can end, 'error' before 'close' included.
NextLog ==
  \/ \E scriptId \in ScriptIds :
       \E openFail \in SubmitInputs(scriptId, Arr(<< >>), {"ok", "stderr"}) :
         /\ Len(jobs) < MaxLogJobs
         /\ SubmitRun(scriptId, Arr(<< >>), "unset", openFail)
  \/ \E jobId \in DOMAIN jobs : CancelJob(jobId)
  \/ \E j \in DOMAIN jobs : TimerFire(j)
  \/ \E j \in DOMAIN jobs, openFail \in OpenInputs(QueuedIds, {"ok"}) :
       ChildError(j, openFail)
  \/ \E j \in DOMAIN jobs, e \in {<<Some(0), Null>>, <<Null, Some("SIGTERM")>>},
        openFail \in OpenInputs(QueuedIds, {"ok"}) :
       ChildClose(j, e[1], e[2], openFail)
  \/ \E j \in DOMAIN jobs, stream \in Streams, n \in 1..MaxChunk :
       ChildData(j, stream, n)

SpecLog == Init /\ [][NextLog]_vars

\* SpecCap: SpecLog for a runner configured with maxLogBytesPerStream 0 as
\* well
SpecCap == InitCap /\ [][NextLog]_vars

\* SpecDisk: the runner on a file system whose writes fail at times, with a
\* queue behind a single job and output on stdout.
NextDisk ==
  \/ \E openFail \in SubmitInputs("ok", Arr(<< >>), {"ok"}) :
       /\ Len(jobs) < MaxDiskJobs
       /\ SubmitRun("ok", Arr(<< >>), "unset", openFail)
  \/ \E jobId \in DOMAIN jobs : CancelJob(jobId)
  \/ \E j \in DOMAIN jobs, openFail \in OpenInputs(QueuedIds, {"ok"}) :
       ChildError(j, openFail)
  \/ \E j \in DOMAIN jobs, e \in {<<Some(0), Null>>, <<Some(1), Null>>},
        openFail \in OpenInputs(QueuedIds, {"ok"}) :
       ChildClose(j, e[1], e[2], openFail)
  \/ \E j \in DOMAIN jobs :
       /\ exec[j].produced.stdout = 0
       /\ ChildData(j, "stdout", MaxChunk - 1)
  \/ \E d \in DiskInputs : DiskChange(d)

SpecDisk == Init /\ [][NextDisk]_vars

\* SpecStore: the job store over process restarts, with the clock.
NextStore ==
  \/ \E openFail \in SubmitInputs("ok", Arr(<< >>), {"ok", "stdout"}) :
       /\ Len(jobs) < MaxStoreJobs
       /\ SubmitRun("ok", Arr(<< >>), "unset", openFail)
  \/ \E jobId \in DOMAIN jobs : CancelJob(jobId)
  \/ \E j \in DOMAIN jobs, e \in {<<Some(0), Null>>, <<Null, Some("SIGTERM")>>},
        openFail \in OpenInputs(QueuedIds, {"ok", "stdout"}) :
       ChildClose(j, e[1], e[2], openFail)
  \/ Tick
  \/ \E torn \in BOOLEAN : Restart(torn)

SpecStore == Init /\ [][NextStore]_vars

(* ------------------------------- claims -------------------------------- *)
Running == {j \in DOMAIN jobs : jobs[j].status = RUNNING}

\* C1: in every reachable state the number of jobs whose status is running
\* is at most maxConcurrent.
C1_RunningAtMostMaxConcurrent == Cardinality(Running) <= maxConcurrent

\* every slot is taken while another job waits in the queue
C1_Witness ==
  /\ maxConcurrent = 2
  /\ Cardinality(Running) = 2
  /\ Len(queue) > 0

\* C2 (as claimed): once a job's status is terminal, no step changes its
\* status, code, startedAt, endedAt or durationMs.
C2_TerminalAbsorbing ==
  [][\A j \in DOMAIN jobs :
       jobs[j].status \in Terminal =>
         /\ jobs'[j].status = jobs[j].status
         /\ jobs'[j].code = jobs[j].code
         /\ jobs'[j].startedAt = jobs[j].startedAt
         /\ jobs'[j].endedAt = jobs[j].endedAt
         /\ jobs'[j].durationMs = jobs[j].durationMs]_vars

\* C3: for every job handed to the executor the terminal transition (status,
\* code and endedAt written, runningCount decremented, queue drained) is
\* applied exactly once, however timeout, cancel, 'error' and 'close'
\* interleave.
C3_ExactlyOneTransition ==
  /\ \A j \in DOMAIN jobs :
       /\ exec[j].transitions <= 1
       /\ jobs[j].startedAt # Null =>
            (exec[j].transitions = 1 <=> jobs[j].status \in Terminal)
  /\ runningCount = Cardinality(Running)

\* a job on which the timer, a cancel, 'error' and 'close' have all acted
C3_Witness ==
  \E j \in DOMAIN jobs :
    /\ exec[j].timedOut /\ jobs[j].cancelRequested
    /\ exec[j].errored /\ exec[j].closed
    /\ exec[j].transitions = 1

\* C4 (as claimed): a running job that was cancelled and whose timer has not
\* fired becomes canceled with code -1 when it becomes terminal.
C4_CancelWins ==
  [][\A j \in DOMAIN jobs :
       ( /\ jobs[j].status = RUNNING
         /\ jobs[j].cancelRequested
         /\ ~exec[j].timedOut
         /\ jobs'[j].status \in Terminal )
       => (jobs'[j].status = CANCELED /\ jobs'[j].code = Some(-1))]_vars

\* C5: a job cancelled while queued is canceled with code -1, startedAt null
\* and durationMs 0, and stays so: it is never handed to the executor, also
\* when its queue entry is popped.
C5_QueuedCancel ==
  [][\A j \in DOMAIN jobs :
       ( \/ jobs[j].status = QUEUED /\ jobs'[j].cancelRequested
         \/ jobs[j].status = CANCELED /\ jobs[j].startedAt = Null )
       => /\ jobs'[j].status = CANCELED
          /\ jobs'[j].code = Some(-1)
          /\ jobs'[j].startedAt = Null
          /\ jobs'[j].durationMs = Some(0)
          /\ exec'[j] = NoExec]_vars

\* a job cancelled while queued whose queue entry has been popped
C5_Witness ==
  \E j \in DOMAIN jobs :
    /\ jobs[j].status = CANCELED /\ jobs[j].startedAt = Null
    /\ \A i \in DOMAIN queue : queue[i] # j
    /\ \E k \in DOMAIN jobs : k # j /\ jobs[k].status \in Terminal

\* C6 (as claimed): the promise of a sync-mode submitRun is resolved, with
\* the terminal snapshot, once its job is terminal.
C6_SyncResolves ==
  \A j \in DOMAIN jobs :
    (jobs[j].mode = "sync" /\ jobs[j].status \in Terminal)
    => /\ promises[j].state = "resolved"
       /\ promises[j].value = Some(serializeJob(jobs[j]))

\* the priority table of C7 for the exit (code, signal) of job j's child
C7_Table(j, code, signal) ==
  LET t == exec[j].timedOut
      c == jobs[j].cancelRequested
      got == <<jobs'[j].status, jobs'[j].code>>
  IN /\ t => got = <<TIMED_OUT, Some(-1)>>
     /\ (~t /\ c) => got = <<CANCELED, Some(-1)>>
     /\ (~t /\ ~c /\ signal # Null) => got = <<FAILED, Some(-1)>>
     /\ (~t /\ ~c /\ signal = Null /\ code = Some(0)) => got = <<SUCCEEDED, Some(0)>>
     /\ (~t /\ ~c /\ signal = Null /\ code = Some(1)) => got = <<FAILED, Some(1)>>
     /\ (~t /\ ~c /\ signal = Null /\ code = Null) => got = <<FAILED, Some(-1)>>

\* C7: when 'close' finishes a job, its (status, code) follow the priority
\* timedOut, cancelRequested, signal, exit code 0, other exit code.
C7_ClosePriority ==
  [][\A j \in DOMAIN jobs, e \in ExitInputs :
       ( /\ exec[j].spawned /\ ~exec[j].closed /\ ~exec[j].finished
         /\ exec'[j].closed
         /\ \E openFail \in OpenInputs(QueuedIds, OpenOutcomes) :
              ChildClose(j, e[1], e[2], openFail) )
       => C7_Table(j, e[1], e[2])]_vars

\* 'close' found both timedOut and cancelRequested set: timed_out won
C7_Witness ==
  \E j \in DOMAIN jobs :
    /\ exec[j].closed /\ ~exec[j].errored
    /\ exec[j].timedOut /\ jobs[j].cancelRequested
    /\ jobs[j].status = TIMED_OUT

\* C8: admission is FIFO: a job is never admitted while a job submitted
\* before it is still queued, and with maxConcurrent = 1 a job starts only
\* after every job submitted before it is terminal.
C8_FifoAdmission ==
  \A a, b \in DOMAIN jobs :
    (a < b /\ jobs[b].startedAt # Null)
    => /\ jobs[a].status # QUEUED
       /\ maxConcurrent = 1 => jobs[a].status \in Terminal

\* three jobs went through a single slot one after the other
C8_Witness ==
  /\ maxConcurrent = 1
  /\ seq = 3
  /\ \A j \in DOMAIN jobs : jobs[j].startedAt # Null

\* C9 (as claimed): a job of a script with timeoutSec > 0 has its timer
\* armed while it runs; expiry sends SIGTERM; and once the child closes
\* after expiry the job is timed_out with code -1.
C9_TimeoutEndsTimedOut ==
  \A j \in DOMAIN jobs :
    /\ ( /\ exec[j].spawned /\ ~exec[j].finished /\ ~exec[j].timedOut
         /\ scriptMap[jobs[j].scriptId].timeoutSec > 0 )
       => exec[j].timeoutHandle = "armed"
    /\ exec[j].timedOut => exec[j].sigterm
    /\ (exec[j].timedOut /\ exec[j].closed)
       => (jobs[j].status = TIMED_OUT /\ jobs[j].code = Some(-1))

\* C10: an operation that returns ok:false leaves the jobs map, the job-id
\* sequence, the queue, runningCount and the persisted file unchanged.
C10_RejectedChangesNothing ==
  [][~ret'.ok => UNCHANGED <<jobs, seq, queue, runningCount, store>>]_vars

\* a request was rejected for its args while jobs were running and queued
C10_Witness ==
  /\ ret = Err("INVALID_ARGS")
  /\ runningCount > 0
  /\ Len(queue) > 0

\* C11: two consecutive cancelJob calls on any job, the second at the same
\* or a later instant, return equal snapshots, and jobs, queue, runningCount
\* and the store after the second call equal those after the first.
C11_CancelIdempotent ==
  \A j \in DOMAIN jobs, t2 \in now..MaxClock :
    LET first == cancelJob(St, j, now)
        second == cancelJob(first.st, j, t2)
    IN /\ second.ret = first.ret
       /\ second.st.jobs = first.st.jobs
       /\ second.st.queue = first.st.queue
       /\ second.st.runningCount = first.st.runningCount
       /\ second.st.store = first.st.store

\* a first cancel has acted on a queued job and on a running one, and the
\* clock has moved on since the queued job was cancelled
C11_Witness ==
  /\ \E j \in DOMAIN jobs :
       /\ jobs[j].status = CANCELED /\ jobs[j].startedAt = Null
       /\ jobs[j].endedAt = Some(0) /\ now = 1
  /\ \E k \in DOMAIN jobs : jobs[k].status = RUNNING /\ jobs[k].cancelRequested

\* C12: cancelJob on a terminal job returns ok:true with the current
\* snapshot and changes nothing: no job field, not cancelRequested, no
\* signal to the child, not the queue, runningCount or the store.
C12_CancelTerminalNoOp ==
  \A j \in DOMAIN jobs :
    jobs[j].status \in Terminal =>
      LET r == cancelJob(St, j, now)
      IN r.st = St /\ r.ret = Accepted(jobs[j])

\* a terminal job that was never cancelled and whose child is still alive
C12_Witness ==
  \E j \in DOMAIN jobs :
    /\ jobs[j].status = FAILED /\ ~jobs[j].cancelRequested
    /\ exec[j].errored /\ ~exec[j].closed /\ ~exec[j].sigterm

\* the first n bytes the child of a job wrote on a stream
Written(stream, n) == childBytes(stream, 0, n)

\* C13: for each stream of each job the recorded size is at most
\* maxLogBytesPerStream, and, when no log write has failed on the stream, the
\* truncated flag is set exactly when the child has produced more bytes than
\* the cap.
C13_SizeAndTruncated ==
  \A j \in DOMAIN jobs, stream \in Streams :
    /\ jobs[j][sizeKey(stream)] <= maxLogBytesPerStream
    /\ ~exec[j].writeError[stream] =>
         (jobs[j][truncatedKey(stream)] <=>
            exec[j].produced[stream] > maxLogBytesPerStream)

\* one stream went over the cap, the other stopped exactly at the cap
C13_Witness ==
  \E j \in DOMAIN jobs :
    /\ exec[j].produced.stdout > maxLogBytesPerStream
    /\ jobs[j].stdoutTruncated /\ jobs[j].stdoutSize = maxLogBytesPerStream
    /\ exec[j].produced.stderr = maxLogBytesPerStream
    /\ ~jobs[j].stderrTruncated /\ jobs[j].stderrSize = maxLogBytesPerStream
    /\ ~exec[j].writeError.stdout /\ ~exec[j].writeError.stderr

\* the data of the successive getJobLogs calls that start at offset and
\* pass each nextOffset as the next offset, until a call returns nothing
RECURSIVE C19_Pages(_, _, _, _)
C19_Pages(j, stream, offset, limit) ==
  LET r == getJobLogs(St, j, stream, Some(offset), Some(limit))
  IN IF r.nextOffset = offset THEN << >>
     ELSE <<r>> \o C19_Pages(j, stream, r.nextOffset, limit)

RECURSIVE C19_Concat(_)
C19_Concat(pages) ==
  IF pages = << >> THEN << >> ELSE Head(pages).data \o C19_Concat(Tail(pages))

\* C19 (as claimed): reading a log page by page from offset 0 with a fixed
\* limit, nextOffset never decreases, each call reads min(limit, cap,
\* totalSize - offset) bytes, the concatenated data is the content of the
\* file, and a call at or beyond the end, or on a file that does not exist,
\* returns empty data with nextOffset = offset.
C19_PaginatedRead ==
  \A j \in DOMAIN jobs, stream \in Streams, limit \in 1..MaxLimit :
    LET file == files[jobs[j].jobId][stream]
        bytes == IF file = Null THEN << >> ELSE Val(file)
        pages == C19_Pages(j, stream, 0, limit)
        last == getJobLogs(St, j, stream, Some(Len(bytes)), Some(limit))
    IN /\ \A i \in DOMAIN pages :
            /\ pages[i].nextOffset >= pages[i].offset
            /\ pages[i].nextOffset - pages[i].offset =
                 Min(Min(limit, ReadLimitCap), Len(bytes) - pages[i].offset)
       /\ C19_Concat(pages) = utf8Decode(bytes)
       /\ last.data = << >> /\ last.nextOffset = Len(bytes)

\* C20: when no log write has failed on a stream, the log file holds the
\* first min(bytes produced, maxLogBytesPerStream) bytes the child wrote on
\* it, in order, and a read from offset 0 that asks for the whole file
\* returns the text of exactly those bytes.
C20_LogHoldsPrefix ==
  \A j \in DOMAIN jobs, stream \in Streams :
    (exec[j].spawned /\ ~exec[j].writeError[stream]) =>
      LET kept == Written(stream, Min(exec[j].produced[stream], maxLogBytesPerStream))
          r == getJobLogs(St, j, stream, Some(0), Some(maxLogBytesPerStream))
      IN /\ files[jobs[j].jobId][stream] = Some(kept)
         /\ r.ok /\ r.totalSize = Len(kept)
         /\ r.data = utf8Decode(kept)

\* both logs are full, each after a chunk that had to be cut at the cap
C20_Witness ==
  \E j \in DOMAIN jobs :
    /\ exec[j].produced.stdout = MaxProduced
    /\ exec[j].produced.stderr = MaxProduced
    /\ files[jobs[j].jobId].stdout = Some(Written("stdout", maxLogBytesPerStream))
    /\ files[jobs[j].jobId].stderr = Some(Written("stderr", maxLogBytesPerStream))

\* C14 (as claimed): when the process stops at any point, a store rewrite
\* included, and a new runner is constructed, every job the store file listed
\* before the stop is in the new job map with a terminal status.
C14_CrashConsistent ==
  [][boot' # boot =>
       \A i \in DOMAIN store.records :
         \E k \in DOMAIN jobs' :
           /\ jobs'[k].jobId = store.records[i].jobId
           /\ jobs'[k].status \in Terminal]_vars

\* C15: at construction every record of the file with status queued or
\* running enters the job map as failed with code -1 and endedAt set, its
\* durationMs computed only when startedAt is known, and every terminal
\* record as it is in the file; no job is queued or running then, the queue
\* is empty, runningCount is 0, and a job loaded from the file is never
\* queued or handed to the executor afterwards.
C15_LoadRecovers ==
  [][/\ boot' # boot =>
          /\ DOMAIN jobs' = DOMAIN store'.records
          /\ \A i \in DOMAIN jobs' :
               LET rec == store'.records[i]
                   job == jobs'[i]
               IN /\ job.status \in Terminal
                  /\ rec.status \in Terminal => serializeJobForStore(job) = rec
                  /\ rec.status \notin Terminal =>
                       /\ job.status = FAILED /\ job.code = Some(-1)
                       /\ job.endedAt = Some(now)
                       /\ job.durationMs =
                            IF rec.startedAt = Null THEN Null
                            ELSE Some(now - Val(rec.startedAt))
                       /\ job.durationMs # Null => Val(job.durationMs) >= 0
                       /\ job.jobId = rec.jobId /\ job.scriptId = rec.scriptId
                       /\ job.startedAt = rec.startedAt
                       /\ job.createdAt = rec.createdAt /\ job.mode = rec.mode
          /\ queue' = << >> /\ runningCount' = 0
     /\ boot' = boot =>
          \A i \in DOMAIN jobs :
            jobs[i].jobId[1] < boot =>
              /\ jobs'[i] = jobs[i]
              /\ exec'[i] = NoExec
              /\ \A q \in DOMAIN queue' : queue'[q] # i]_vars

\* a new runner holds a job recovered from queued and one recovered from
\* running some time after its start
C15_Witness ==
  /\ boot > 0
  /\ \E i \in DOMAIN jobs :
       /\ jobs[i].jobId[1] < boot /\ jobs[i].status = FAILED
       /\ jobs[i].startedAt = Null /\ jobs[i].durationMs = Null
  /\ \E i \in DOMAIN jobs :
       /\ jobs[i].jobId[1] < boot /\ jobs[i].status = FAILED
       /\ jobs[i].startedAt = Some(0) /\ jobs[i].durationMs = Some(1)

\* C16 (as claimed): whenever an operation has completed, the store file
\* lists every job of the job map with the status, code and timestamps the
\* job has in memory.
C16_StoreMirrorsJobs ==
  \A j \in DOMAIN jobs :
    /\ store.kind = "json"
    /\ j \in DOMAIN store.records
    /\ store.records[j].jobId = jobs[j].jobId
    /\ store.records[j].status = jobs[j].status
    /\ store.records[j].code = jobs[j].code
    /\ store.records[j].createdAt = jobs[j].createdAt
    /\ store.records[j].startedAt = jobs[j].startedAt
    /\ store.records[j].endedAt = jobs[j].endedAt

\* the fields of the job data model
C17_DataModel(job) ==
  [jobId |-> job.jobId, scriptId |-> job.scriptId, args |-> job.args,
   mode |-> job.mode, status |-> job.status, code |-> job.code,
   createdAt |-> job.createdAt, startedAt |-> job.startedAt,
   endedAt |-> job.endedAt, durationMs |-> job.durationMs,
   stdoutSize |-> job.stdoutSize, stderrSize |-> job.stderrSize,
   stdoutTruncated |-> job.stdoutTruncated,
   stderrTruncated |-> job.stderrTruncated,
   stdoutPreview |-> job.stdoutPreview, stderrPreview |-> job.stderrPreview]

\* C17 (as claimed): a new runner constructed from the store file, the file
\* being whole, holds every job that was terminal when last persisted with
\* the same value in every field of the data model, and gives the same
\* getJob snapshot for it.
C17_TerminalRoundTrip ==
  [][(boot' # boot /\ store' = store /\ store.kind = "json") =>
       \A i \in DOMAIN store.records :
         (i \in DOMAIN jobs /\ store.records[i].status \in Terminal) =>
           /\ i \in DOMAIN jobs'
           /\ serializeJob(jobs'[i]) = serializeJob(jobs[i])
           /\ C17_DataModel(jobs'[i]) = C17_DataModel(jobs[i])]_vars

\* the status changes a job may go through
C18_Allowed ==
  { <<QUEUED, RUNNING>>, <<QUEUED, CANCELED>>, <<RUNNING, SUCCEEDED>>,
    <<RUNNING, FAILED>>, <<RUNNING, TIMED_OUT>>, <<RUNNING, CANCELED>> }

\* C18: within one process lifetime every job starts queued, and every
\* assignment to its status that changes it goes queued to running, queued
\* to canceled, or running to succeeded, failed, timed_out or canceled.
C18_StatusTransitions ==
  \A j \in DOMAIN jobs :
    /\ trail[j][1] = QUEUED
    /\ trail[j][Len(trail[j])] = jobs[j].status
    /\ \A i \in 1..(Len(trail[j]) - 1) :
         trail[j][i] # trail[j][i + 1] =>
           <<trail[j][i], trail[j][i + 1]>> \in C18_Allowed

\* one job failed at admission, inside the handler that made it running,
\* and another ran and timed out
C18_Witness ==
  /\ \E j \in DOMAIN jobs :
       trail[j] = <<QUEUED, RUNNING, FAILED>> /\ ~exec[j].spawned
  /\ \E k \in DOMAIN jobs : trail[k] = <<QUEUED, RUNNING, TIMED_OUT>>

\* the last min(previewMaxBytes, n) of the first n bytes a child wrote on
\* a stream
C21_Tail(stream, n) ==
  childBytes(stream, n - Min(previewMaxBytes, n), Min(previewMaxBytes, n))

\* job j becomes terminal in this step
C21_BecomesTerminal(j) ==
  /\ j \in DOMAIN jobs'
  /\ jobs'[j].status \in Terminal
  /\ j \in DOMAIN jobs => jobs[j].status \notin Terminal

C22_ZeroCapWritesNothing ==
  config.runner.maxLogBytesPerStream = 0 =>
    \A j \in DOMAIN jobs, stream \in Streams :
      /\ jobs[j][sizeKey(stream)] = 0
      /\ files[jobs[j].jobId][stream] \in {Null, Some(<< >>)}
      /\ ~exec[j].writeError[stream] =>
           (jobs[j][truncatedKey(stream)] <=> exec[j].produced[stream] > 0)

\* C23: a job of a script with timeoutSec = 0 has no timer and is never
\* timed_out; a job is timed_out only if its script has timeoutSec > 0 and
\* its timer has fired, and a timer fires only while its job is running.
C23_TimedOutOnlyByTimer ==
  [][\A j \in DOMAIN jobs' :
       LET timeoutSec == scriptMap[jobs'[j].scriptId].timeoutSec
       IN /\ timeoutSec = 0 =>
               /\ exec'[j].timeoutHandle = "none"
               /\ ~exec'[j].timedOut
               /\ jobs'[j].status # TIMED_OUT
          /\ jobs'[j].status = TIMED_OUT =>
               /\ timeoutSec > 0
               /\ exec'[j].timedOut /\ exec'[j].timeoutHandle = "fired"
          /\ (exec'[j].timedOut /\ j \in DOMAIN jobs /\ ~exec[j].timedOut) =>
               (jobs[j].status = RUNNING /\ jobs'[j].status = RUNNING)]_vars

\* a job without timeout was killed by a signal and is failed, not
\* timed_out, and a job with a timeout is timed_out
C23_Witness ==
  /\ \E j \in DOMAIN jobs :
       /\ jobs[j].scriptId = "ok" /\ exec[j].closed /\ ~exec[j].errored
       /\ ~jobs[j].cancelRequested /\ jobs[j].status = FAILED
       /\ jobs[j].code = Some(-1)
  /\ \E k \in DOMAIN jobs : jobs[k].scriptId = "slow" /\ jobs[k].status = TIMED_OUT

\* C24: an async-mode submitRun returns {ok: true, async: true, job} in the
\* call itself, no event of the job's child having been handled and no
\* promise left pending; the snapshot is getJob(jobId) at that moment, with
\* status running when runningCount < maxConcurrent held before the call and
\* the log files opened, and queued when runningCount >= maxConcurrent.
C24_AsyncReturnsAtOnce ==
  [][(Len(jobs') = Len(jobs) + 1 /\ jobs'[Len(jobs')].mode = "async") =>
       LET j == Len(jobs')
           openFailed == jobs'[j].status = FAILED /\ ~exec'[j].spawned
       IN /\ "async" \in DOMAIN ret' /\ ret'.ok /\ ret'.async
          /\ ret'.job = getJob([jobs |-> jobs'], j)
          /\ ~exec'[j].closed /\ ~exec'[j].errored /\ ~exec'[j].timedOut
          /\ promises'[j] = NoPromise
          /\ (runningCount < maxConcurrent /\ ~openFailed) =>
               Val(ret'.job).status = RUNNING
          /\ runningCount >= maxConcurrent => Val(ret'.job).status = QUEUED
          /\ openFailed => runningCount < maxConcurrent]_vars

\* an async submit has just returned a queued snapshot, the only slot being
\* taken by a job that is still running
C24_Witness ==
  /\ "async" \in DOMAIN ret
  /\ Val(ret.job).status = QUEUED
  /\ maxConcurrent = 1
  /\ \E k \in DOMAIN jobs : jobs[k].status = RUNNING /\ jobs[k].mode = "sync"

\* the elements and the args the requests of C25 are made of: strings that
\* are empty, accepted, outside the pattern or too long, a value that is no
\* string, in arrays of up to three elements, and a value that is no array
C25_Elements ==
  { Str(<< >>), Str(<<"a">>), Str(<<"b", "/">>), Str(<<"a", ".", "-">>),
    Str(<<"a", "a", "a", "a">>), NonStr }
C25_Args ==
  {NotArray} \cup {Arr(<< >>)}
  \cup {Arr(<<x>>) : x \in C25_Elements}
  \cup {Arr(<<x, y>>) : x \in C25_Elements, y \in C25_Elements}
  \cup {Arr(<<x, y, z>>) : x \in C25_Elements, y \in {Str(<<"a">>), NonStr},
                          z \in {Str(<<"a">>), Str(<<"b", "/">>)}}

\* scriptId is registered, args is an array of at most maxItems elements,
\* each a string of at most itemMaxLength characters matching itemPattern
C25_Acceptable(scriptId, args) ==
  /\ scriptId \in ScriptIds
  /\ args.isArray
  /\ Len(args.items) <= scriptMap[scriptId].args.maxItems
  /\ \A i \in DOMAIN args.items :
       /\ args.items[i].isString
       /\ Len(args.items[i].chars) <= scriptMap[scriptId].args.itemMaxLength
       /\ itemRegexTest(args.items[i].chars)

\* C25: validateRequest returns ok exactly for the acceptable requests,
\* SCRIPT_NOT_FOUND for every unknown scriptId whatever the args, and
\* INVALID_ARGS for every other request; the jobs submitRun has created all
\* come from acceptable requests.
C25_ValidateRequest ==
  /\ \A j \in DOMAIN jobs :
       /\ validateRequest(jobs[j].scriptId, Arr(Val(jobs[j].args))).ok
       /\ C25_Acceptable(jobs[j].scriptId, Arr(Val(jobs[j].args)))
  /\ \A scriptId \in ScriptIdInputs, args \in C25_Args :
       LET validated == validateRequest(scriptId, args)
       IN /\ validated.ok <=> C25_Acceptable(scriptId, args)
          /\ scriptId \notin ScriptIds =>
               (~validated.ok /\ validated.code = "SCRIPT_NOT_FOUND")
          /\ (scriptId \in ScriptIds /\ ~C25_Acceptable(scriptId, args)) =>
               (~validated.ok /\ validated.code = "INVALID_ARGS")

\* submitRun has accepted a request with an argument and then rejected one
\* for its scriptId
C25_Witness ==
  /\ ret = Err("SCRIPT_NOT_FOUND")
  /\ \E j \in DOMAIN jobs : jobs[j].args = Some(<< Str(<<"a">>) >>)

\* C26: for every job, startedAt is set exactly when running is among the
\* values its status has had, and endedAt is set exactly when its status is
\* terminal.
C26_StartedAndEnded ==
  \A j \in DOMAIN jobs :
    /\ jobs[j].startedAt # Null <=> \E i \in DOMAIN trail[j] : trail[j][i] = RUNNING
    /\ jobs[j].endedAt # Null <=> jobs[j].status \in Terminal

\* a job that ended without ever running, next to one that runs and has a
\* cancel pending
C26_Witness ==
  /\ \E j \in DOMAIN jobs :
       /\ trail[j] = <<QUEUED, CANCELED>>
       /\ jobs[j].startedAt = Null /\ jobs[j].endedAt # Null
  /\ \E k \in DOMAIN jobs :
       /\ jobs[k].status = RUNNING /\ jobs[k].cancelRequested /\ exec[k].sigterm
       /\ jobs[k].startedAt # Null /\ jobs[k].endedAt = Null

\* the mode C27 gives a job: the request's when it names one, else the
\* script's ("slow" is async, "ok" names none), else runner.defaultMode
C27_Resolved(scriptId, mode) ==
  CASE mode = "sync" -> "sync"
    [] mode = "async" -> "async"
    [] OTHER -> IF scriptId = "slow" THEN "async" ELSE defaultMode

\* C27: the job a submitRun creates has the mode resolved from the request,
\* the script and the default, in that order, and no later step changes the
\* mode of a job.
C27_ModeResolvedOnce ==
  [][/\ \A j \in DOMAIN jobs : jobs'[j].mode = jobs[j].mode
     /\ Len(jobs') = Len(jobs) + 1 =>
          LET j == Len(jobs')
              scriptId == jobs'[j].scriptId
              args == Arr(Val(jobs'[j].args))
          IN \A mode \in ModeInputs :
               (\E openFail \in SubmitInputs(scriptId, args, OpenOutcomes) :
                  SubmitRun(scriptId, args, mode, openFail))
               => jobs'[j].mode = C27_Resolved(scriptId, mode)]_vars

\* a job of the async script ran in sync mode and a job of the script
\* without a mode ran in async mode, both to the end
C27_Witness ==
  /\ \E j \in DOMAIN jobs :
       /\ jobs[j].scriptId = "slow" /\ jobs[j].mode = "sync"
       /\ jobs[j].status \in Terminal /\ promises[j].state = "resolved"
  /\ \E k \in DOMAIN jobs :
       /\ jobs[k].scriptId = "ok" /\ jobs[k].mode = "async"
       /\ jobs[k].status \in Terminal

\* C28: cancelJob on a running job sets cancelRequested, signals the child
\* and changes nothing else: not the status, runningCount, the queue or the
\* store file; and a running job, cancelled or not, leaves running only in
\* the step that handles its child's 'close' or 'error', whatever the clock
\* does meanwhile, and is counted in runningCount as long as it runs.
C28_CancelRunningOnlySignals ==
  [][\A j \in DOMAIN jobs :
       jobs[j].status = RUNNING =>
         /\ LET r == cancelJob(St, j, now)
            IN /\ r.st = [St EXCEPT !.jobs[j].cancelRequested = TRUE,
                                    !.exec[j].sigterm = TRUE]
               /\ r.ret.ok /\ Val(r.ret.job).status = RUNNING
               /\ r.st.store = store /\ r.st.queue = queue
               /\ r.st.runningCount = runningCount
         /\ jobs'[j].status # RUNNING =>
              \/ exec'[j].closed /\ ~exec[j].closed
              \/ exec'[j].errored /\ ~exec[j].errored
         /\ jobs'[j].status = RUNNING =>
              /\ runningCount' >= 1
              /\ store'.records[j].status = RUNNING
              /\ \A q \in DOMAIN queue' : queue'[q] # j]_vars

\* a running job was cancelled, its child has ignored the signal while the
\* clock advanced, and a second job waits for the slot
C28_Witness ==
  /\ maxConcurrent = 1 /\ now = 1
  /\ \E j \in DOMAIN jobs :
       /\ jobs[j].status = RUNNING /\ jobs[j].cancelRequested /\ exec[j].sigterm
       /\ jobs[j].startedAt = Some(0) /\ ~exec[j].closed /\ ~exec[j].errored
  /\ \E k \in DOMAIN jobs : jobs[k].status = QUEUED /\ jobs[k].createdAt = Some(1)

\* the queued jobs that no cancel has marked, in queue order
C29_Waiting == SelectSeq(queue, LAMBDA q : ~jobs[q].cancelRequested)

\* C29: the step that handles a child's 'error' before its 'close' makes the
\* job failed with code -1, once, with the error message at the end of its
\* stderr preview; it gives the slot to the first job waiting in the queue,
\* if there is one, and frees it otherwise; and the step that handles a
\* 'close' of the same child afterwards changes no job, nor the queue,
\* runningCount, the store or a promise.
C29_ChildErrorFails ==
  [][\A j \in DOMAIN jobs :
       /\ (exec'[j].errored /\ ~exec[j].errored /\ ~exec[j].closed) =>
            /\ jobs[j].status = RUNNING
            /\ jobs'[j].status = FAILED /\ jobs'[j].code = Some(-1)
            /\ exec'[j].transitions = 1
            /\ jobs'[j].stderrPreview =
                 utf8Decode(appendTailBuffer(exec[j].stderrPreviewBuf,
                                             childErrorMessage, previewMaxBytes))
            /\ store'.records[j].status = FAILED
            /\ runningCount' = Cardinality({k \in DOMAIN jobs' : jobs'[k].status = RUNNING})
            /\ IF C29_Waiting # << >>
               THEN /\ jobs'[Head(C29_Waiting)].startedAt # Null
                    /\ \A q \in DOMAIN queue' : queue'[q] # Head(C29_Waiting)
               ELSE /\ queue' = << >>
                    /\ runningCount' = runningCount - 1
       /\ (exec'[j].closed /\ ~exec[j].closed /\ exec[j].errored) =>
            /\ jobs' = jobs /\ queue' = queue /\ runningCount' = runningCount
            /\ store' = store /\ promises' = promises /\ files' = files]_vars

\* a child failed with 'error' and closed later; the job behind it in the
\* queue had been cancelled and was skipped, the one after it got the slot
C29_Witness ==
  /\ maxConcurrent = 1 /\ Len(jobs) = 3
  /\ jobs[1].status = FAILED /\ exec[1].errored /\ exec[1].closed
  /\ jobs[1].stderrPreview = <<"n", "E">>
  /\ jobs[2].status = CANCELED /\ jobs[2].startedAt = Null
  /\ jobs[3].status = RUNNING

\* C30 (as claimed): no log file handle of a terminal job is open, by
\* whichever path the job became terminal.
C30_NoHandleLeftOpen ==
  \A j \in DOMAIN jobs :
    jobs[j].status \in Terminal => (~exec[j].stdoutFd /\ ~exec[j].stderrFd)

\* C31: once a job is terminal its timer is not armed, a cancelJob on it
\* signals nothing, and no step sets timedOut, fires the timer or sends
\* SIGTERM on its behalf.
C31_NoSignalAfterTerminal ==
  [][\A j \in DOMAIN jobs :
       jobs[j].status \in Terminal =>
         /\ exec[j].timeoutHandle # "armed"
         /\ cancelJob(St, j, now).st.exec = exec
         /\ exec'[j].timeoutHandle = exec[j].timeoutHandle
         /\ exec'[j].timedOut = exec[j].timedOut
         /\ exec'[j].sigterm = exec[j].sigterm]_vars

\* a job with a timeout ended by 'error' before its timer fired and before
\* any signal was sent; its child has closed since
C31_Witness ==
  \E j \in DOMAIN jobs :
    /\ jobs[j].scriptId = "slow" /\ jobs[j].status = FAILED
    /\ exec[j].errored /\ exec[j].closed
    /\ exec[j].timeoutHandle = "cleared"
    /\ ~exec[j].timedOut /\ ~exec[j].sigterm

\* what C32 compares between two runs: the status trajectory and the
\* timestamps of every job, its cancel mark, the queue, runningCount, the
\* job-id sequence, the state of each executor and child, and whether each
\* promise is resolved
C32_Trajectory(st) ==
  [jobs |-> [j \in DOMAIN st.jobs |->
               [jobId |-> st.jobs[j].jobId, status |-> st.jobs[j].status,
                code |-> st.jobs[j].code, startedAt |-> st.jobs[j].startedAt,
                endedAt |-> st.jobs[j].endedAt,
                durationMs |-> st.jobs[j].durationMs,
                cancelRequested |-> st.jobs[j].cancelRequested]],
   trail |-> st.trail, queue |-> st.queue,
   runningCount |-> st.runningCount, seq |-> st.seq,
   exec |-> [j \in DOMAIN st.exec |->
               [spawned |-> st.exec[j].spawned, closed |-> st.exec[j].closed,
                errored |-> st.exec[j].errored, finished |-> st.exec[j].finished,
                timedOut |-> st.exec[j].timedOut,
                timeoutHandle |-> st.exec[j].timeoutHandle,
                stdoutFd |-> st.exec[j].stdoutFd, stderrFd |-> st.exec[j].stderrFd,
                sigterm |-> st.exec[j].sigterm,
                transitions |-> st.exec[j].transitions]],
   promises |-> [j \in DOMAIN st.promises |->
                   [registered |-> st.promises[j].registered,
                    state |-> st.promises[j].state]]]

\* st with everything the writes of the past have left put back to what it
\* is before any write: the store file, the log files, the sizes, flags and
\* previews of the logs; the file system accepting writes
C32_NoWriteYet(st) ==
  [st EXCEPT
     !.disk = "ok",
     !.store = NoStoreFile,
     !.files = [id \in DOMAIN @ |-> [stdout |-> Some(<< >>), stderr |-> Some(<< >>)]],
     !.jobs = [j \in DOMAIN @ |->
                 [@[j] EXCEPT !.stdoutSize = 0, !.stderrSize = 0,
                              !.stdoutTruncated = FALSE, !.stderrTruncated = FALSE,
                              !.stdoutPreview = << >>, !.stderrPreview = << >>]],
     !.exec = [j \in DOMAIN @ |->
                 [@[j] EXCEPT !.stdoutPreviewBuf = << >>, !.stderrPreviewBuf = << >>,
                              !.writeError = [stdout |-> FALSE, stderr |-> FALSE]]],
     !.promises = [j \in DOMAIN @ |-> [@[j] EXCEPT !.value = Null]]]

\* C32: in every state of a run in which writes of the job store and of the
\* logs fail at times, each operation and each callback, whether the writes
\* it makes fail or succeed, ends and leaves the trajectory it leaves when
\* no write has ever failed: the outcome depends neither on the file system
\* nor on anything an earlier write has or has not written.  Two runs with
\* the same requests and events therefore go through the same statuses,
\* codes, queue and runningCount, whichever writes fail.
C32_WriteFailuresChangeNothing ==
  \A d \in DiskInputs :
    LET st == [St EXCEPT !.disk = d]
        ref == C32_NoWriteYet(St)
    IN /\ \A openFail \in OpenInputs(QueuedIds \cup {Len(jobs) + 1}, OpenOutcomes) :
            C32_Trajectory(enqueue(createJob(st, "ok", << >>, "sync", now),
                                   Len(jobs) + 1, now, openFail))
            = C32_Trajectory(enqueue(createJob(ref, "ok", << >>, "sync", now),
                                     Len(jobs) + 1, now, openFail))
       /\ \A j \in DOMAIN jobs :
            /\ C32_Trajectory(cancelJob(st, j, now).st)
               = C32_Trajectory(cancelJob(ref, j, now).st)
            /\ cancelJob(st, j, now).ret.ok
            /\ (exec[j].spawned /\ ~exec[j].closed) =>
                 /\ \A openFail \in OpenInputs(QueuedIds, OpenOutcomes) :
                      /\ C32_Trajectory(onError(st, j, now, openFail))
                         = C32_Trajectory(onError(ref, j, now, openFail))
                      /\ \A e \in ExitInputs :
                           C32_Trajectory(onClose(st, j, e[1], e[2], now, openFail))
                           = C32_Trajectory(onClose(ref, j, e[1], e[2], now, openFail))
                 /\ \A stream \in Streams, n \in 1..MaxChunk :
                      LET chunk == childBytes(stream, exec[j].produced[stream], n)
                      IN C32_Trajectory(onData(st, j, stream, chunk))
                         = C32_Trajectory(onData(ref, j, stream, chunk))

\* two jobs ended while the store could not be written: the file still
\* lists one job only, as running; a log write had failed before
C32_Witness ==
  /\ disk = "denied"
  /\ Len(jobs) = 2
  /\ \A j \in DOMAIN jobs : jobs[j].status \in {SUCCEEDED, FAILED}
  /\ exec[1].writeError.stdout
  /\ store.kind = "json" /\ Len(store.records) = 1
  /\ store.records[1].status = RUNNING

\* C33: the code of a job is null exactly while the job is queued or
\* running; a job is succeeded exactly when its code is 0; a timed-out or
\* canceled job has code -1; a failed job has a code other than 0.
C33_CodeMatchesStatus ==
  \A j \in DOMAIN jobs :
    /\ jobs[j].code = Null <=> jobs[j].status \in {QUEUED, RUNNING}
    /\ jobs[j].status = SUCCEEDED <=> jobs[j].code = Some(0)
    /\ jobs[j].status \in {TIMED_OUT, CANCELED} => jobs[j].code = Some(-1)
    /\ jobs[j].status = FAILED => jobs[j].code # Some(0)

\* a job failed with the exit code of its child beside a succeeded one
C33_Witness ==
  /\ \E j \in DOMAIN jobs : jobs[j].status = FAILED /\ jobs[j].code = Some(1)
  /\ \E j \in DOMAIN jobs : jobs[j].status = SUCCEEDED /\ jobs[j].code = Some(0)

\* st without what the mode of its jobs is: the mode field of the jobs and
\* of the persisted records, and the promises of the sync submits
C34_WithoutMode(st) ==
  [st EXCEPT
     !.jobs = [j \in DOMAIN @ |-> [@[j] EXCEPT !.mode = "sync"]],
     !.store = [@ EXCEPT !.records =
                  [i \in DOMAIN @ |-> [@[i] EXCEPT !.mode = "sync"]]],
     !.promises = [j \in DOMAIN @ |-> NoPromise]]

\* C34: in every state, a submit in sync mode and the same submit in async
\* mode leave the same jobs, queue, runningCount, executors, files and
\* persisted records but for the mode field, and so does every later cancel,
\* child error, child exit and child output, from the state as it is and
\* from the state with the modes of all jobs replaced: two runs that differ
\* in the modes only stay equal but for the mode fields and the promises.
C34_ModeOnlyInSubmitResult ==
  LET ref == C34_WithoutMode(St)
  IN /\ \A scriptId \in ScriptIds, mode \in {"sync", "async"} :
          \A openFail \in OpenInputs(QueuedIds \cup {Len(jobs) + 1}, OpenOutcomes) :
            C34_WithoutMode(enqueue(createJob(St, scriptId, << >>, mode, now),
                                    Len(jobs) + 1, now, openFail))
            = C34_WithoutMode(enqueue(createJob(ref, scriptId, << >>, "sync", now),
                                      Len(jobs) + 1, now, openFail))
     /\ \A j \in DOMAIN jobs :
          /\ C34_WithoutMode(cancelJob(St, j, now).st)
             = C34_WithoutMode(cancelJob(ref, j, now).st)
          /\ cancelJob(St, j, now).ret.ok = cancelJob(ref, j, now).ret.ok
          /\ (exec[j].spawned /\ ~exec[j].closed) =>
               /\ \A openFail \in OpenInputs(QueuedIds, OpenOutcomes) :
                    /\ C34_WithoutMode(onError(St, j, now, openFail))
                       = C34_WithoutMode(onError(ref, j, now, openFail))
                    /\ \A e \in ExitInputs :
                         C34_WithoutMode(onClose(St, j, e[1], e[2], now, openFail))
                         = C34_WithoutMode(onClose(ref, j, e[1], e[2], now, openFail))
               /\ \A stream \in Streams :
                    LET chunk == childBytes(stream, exec[j].produced[stream], 1)
                    IN C34_WithoutMode(onData(St, j, stream, chunk))
                       = C34_WithoutMode(onData(ref, j, stream, chunk))

\* an async job and a sync job both ended, the caller of the sync one
\* answered
C34_Witness ==
  /\ Len(jobs) = 2
  /\ jobs[1].mode = "async" /\ jobs[2].mode = "sync"
  /\ jobs[1].status \in Terminal /\ jobs[2].status \in Terminal
  /\ ~promises[1].registered
  /\ promises[2].state = "resolved"

\* the jobs that are running after the step and were not before it, and
\* those that were and are no more
C35_Entering ==
  {j \in DOMAIN jobs' : /\ jobs'[j].status = RUNNING
                        /\ j \in DOMAIN jobs => jobs[j].status # RUNNING}
C35_Leaving ==
  {j \in DOMAIN jobs : jobs[j].status = RUNNING /\ jobs'[j].status # RUNNING}

\* C35: in every state runningCount is the number of jobs whose status is
\* running and is not negative, and every step adds to it the number of
\* jobs that become running and takes from it the number that leave running.
C35_RunningCountCountsRunning ==
  /\ [](runningCount \in Nat /\ runningCount = Cardinality(Running))
  /\ [][runningCount' = runningCount + Cardinality(C35_Entering)
                                     - Cardinality(C35_Leaving)]_vars

\* a job that was made running and failed in the same call, its log files
\* not opening, beside a job that runs
C35_Witness ==
  /\ runningCount = 1
  /\ \E j \in DOMAIN jobs :
       jobs[j].status = FAILED /\ jobs[j].startedAt # Null /\ ~exec[j].spawned
  /\ \E j \in DOMAIN jobs : jobs[j].status = RUNNING /\ exec[j].spawned

\* C36: between the operations and callbacks of the runner, a free slot
\* means an empty queue, and a job that is queued and not cancelled means
\* that no slot is free.
C36_WorkConserving ==
  /\ runningCount < maxConcurrent => queue = << >>
  /\ \A j \in DOMAIN jobs :
       (jobs[j].status = QUEUED /\ ~jobs[j].cancelRequested) =>
         /\ runningCount >= maxConcurrent
         /\ j \in QueuedIds

\* one slot: the first job ended and the slot went to the second; the
\* third was cancelled while queued and its entry stays in the queue
C36_Witness ==
  /\ maxConcurrent = 1
  /\ Len(jobs) = 3
  /\ jobs[1].status = SUCCEEDED
  /\ jobs[2].status = RUNNING
  /\ jobs[3].status = CANCELED
  /\ queue = <<3>>

C38_ResolvedOnceWhenTerminal ==
  /\ [](\A j \in DOMAIN jobs :
          /\ promises[j].calls <= 1
          /\ promises[j].state = "resolved" =>
               /\ promises[j].calls = 1
               /\ promises[j].value # Null
               /\ Val(promises[j].value).status \in Terminal)
  /\ [][\A j \in DOMAIN jobs :
          (promises[j].state = "pending" /\ promises'[j].state = "resolved") =>
            /\ jobs'[j].status \in Terminal
            /\ promises'[j].value = getJob([St EXCEPT !.jobs = jobs'], j)]_vars

\* the promise of a sync job was resolved when its child emitted 'error',
\* and 'close' of the same child came afterwards
C38_Witness ==
  \E j \in DOMAIN jobs :
    /\ promises[j].state = "resolved" /\ promises[j].calls = 1
    /\ exec[j].errored /\ exec[j].closed
    /\ Val(promises[j].value).status = FAILED

\* the jobs whose child was spawned and has not emitted 'close'
C39_LiveChildren == {j \in DOMAIN jobs : exec[j].spawned /\ ~exec[j].closed}

\* C39 (as claimed): the number of children that were spawned and have not
\* emitted 'close' never exceeds maxConcurrent.
C39_LiveChildrenAtMostMaxConcurrent ==
  Cardinality(C39_LiveChildren) <= maxConcurrent

====
